---- MODULE Spec2Model ----
(***************************************************************************)
(* Model of the MDCalc automation client (mdcalc_client.py), of its        *)
(* line-delimited front end (mdcalc_mcp.py) and of its HTTP front end      *)
(* (server.py, auth.py).                                                   *)
(*                                                                         *)
(* Six specifications share the variables:                                 *)
(*   Spec      execute_calculator / get_calculator_details driving one     *)
(*             page: field resolution, capture, result extraction;         *)
(*   SpecSess  the browser session and the page life cycle of the three    *)
(*             calculator-level operations;                                *)
(*             calculator-level operations, with the replies of the        *)
(*             line-delimited server;                                      *)
(*   SpecHttp  the bearer-token and scope checks of the HTTP endpoint;     *)
(*   SpecFn    the computations on data: capture zoom, search results,     *)
(*             the calculator catalog, hiding and restoring overlays;      *)
(*   SpecConc  two operations in flight on the client of the HTTP server,  *)
(*             interleaved at their awaits;                                *)
(*   SpecStdio handle_request of the line-delimited server, request by     *)
(*             request.                                                    *)
(***************************************************************************)
EXTENDS Integers, Sequences, FiniteSets, TLC

VARIABLES
    \* ---- the page driven by one operation (Spec)
    dom,        \* static structure of the page: labels, inputs, options
    val,        \* val[i]: current value of input i
    sel,        \* sel[o]: option o is in the selected state
    inputs,     \* the caller's input map, in insertion order
    op,         \* "execute" | "details": the operation running on the page
    pc,         \* position inside the operation
    idx,        \* index of the assignment the loop is at
    filled,     \* local variable `filled` of the loop body
    clicked,    \* local variable `clicked` of the loop body
    effects,    \* every fill or click that took effect: <<assignment, kind, element>>
    log,        \* the assignments whose loop body was entered, in order
    shot,       \* the capture taken by the operation ("none" or "bytes")
    zoomed,     \* the snapshot capture left the page zoomed or with overlays hidden
    capfail,    \* the step of the capture that raised ("none" when none did)
    outcome,    \* the dict the operation builds and returns ("none" before)
    \* ---- the browser session (SpecSess)
    browser,    \* self.browser: 0 (None) or the id of a launched browser
    context,    \* self.context: 0 (None) or the id of the browser it belongs to
    playwright, \* self.playwright: 0 (None) or the id of a started driver
    alive,      \* the launched browsers that are neither closed nor crashed
    drivers,    \* the started automation drivers that are not stopped
    pages,      \* the open pages: [ctx |-> the context it lives in, k |-> its number]
    opened,     \* pages opened by the operation in progress (or the last one)
    sop,        \* the calculator-level operation in progress, or the last one
    spc,        \* position inside that operation ("idle" between operations)
    sstart,     \* the session as the operation found it: "live", "dead", "absent"
    sres,       \* how the last operation ended
    pg,         \* local variable `page` of the operation (0 when it has none)
    nlaunch,    \* browsers and drivers started so far (names the next one)
    line,       \* the request line last read by the line-delimited server
    reply,      \* the response written for it (NoReply when none was written)
    relaunchFailed, \* history: a recovery failed and no launch has succeeded since
    \* ---- the HTTP endpoint (SpecHttp)
    req,        \* the request being served
    hpc,        \* position inside the endpoint
    resp,       \* the HTTP status answered (0 before the answer)
    jwksCache,  \* lru_cache of get_jwks: "empty" or "keys"
    calls,      \* MDCalcClient operations invoked for the request
    \* ---- the computations checked on their own (SpecFn)
    fin,        \* the input of the computation
    fout,       \* its result (NoOutput before it ran)
    \* ---- operations in flight at the same time on one client (SpecConc)
    tpc,        \* tpc[t]: the await at which operation t is suspended
    tpg,        \* tpg[t]: local variable `page` of operation t
    tloc,       \* tloc[t]: the driver/browser operation t is starting, and
                \* whether it is in the last-resort branch of the recovery
    crashed,    \* the browsers that crashed underneath the client
    \* ---- the line-delimited server's handle_request (SpecStdio)
    initialized, \* self.initialized of the server
    hist        \* history of the last request: what handle_request did for it

pageVars == <<dom, val, sel, inputs, op, pc, idx, filled, clicked, effects, log,
              shot, zoomed, capfail, outcome>>
sessVars == <<browser, context, playwright, alive, drivers, pages, opened, sop, spc,
              sstart, sres, pg, nlaunch, line, reply, relaunchFailed>>
httpVars == <<req, hpc, resp, jwksCache, calls>>
fnVars == <<fin, fout>>
concVars == <<tpc, tpg, tloc, crashed>>
stdioVars == <<initialized, hist>>
vars == <<pageVars, sessVars, httpVars, fnVars, concVars, stdioVars>>

----------------------------------------------------------------------------
(* Bounds of the model *)

\* longest input map handed to execute_calculator
MaxInputs == 2

----------------------------------------------------------------------------
(* The page: field names, values, elements *)

\* "A": a field with a free-text/numeric control; "B": a field that is on the
\* page only after A has a value; "C", "D": fields made of clickable options;
\* "Z": a name no label, input or option of any page carries.
FieldNames == {"A", "B", "C", "D", "Z"}

\* float(str(value)) succeeds exactly on these raw values
NumericLiterals == {"5", "7", "9"}

isNumericValue(v) == v \in NumericLiterals

\* a label-like element: its text is the field name
Label(text, tag, for, sib, top, rev) ==
    [exists |-> TRUE, text |-> text, tag |-> tag, for |-> for, sib |-> sib,
     top |-> top, rev |-> rev]

\* an input-like element.  owner: the field it belongs to; tag: "INPUT" or
\* "TEXTAREA"; hint: the field name its placeholder carries; ctx: the field
\* names in the text of its container or previous sibling; enabled: neither
\* disabled nor read-only; rev: the field whose value reveals it ("" = always)
Input(owner, tag, hint, ctx, enabled, top, rev, init) ==
    [exists |-> TRUE, owner |-> owner, tag |-> tag, typ |-> "number", hint |-> hint,
     ctx |-> ctx, enabled |-> enabled, top |-> top, rev |-> rev, init |-> init]

\* a clickable option.  tag: "button" or "div"; ctx: the field names in the
\* text of its ancestors up to 5 levels; tealOn: the element that shows the
\* selected background ("self" or "parent"); cls: its class or role marks it
\* as an option/button; actionable: a simulated pointer click can reach it
Option(field, tag, text, ctx, tealOn, cls, actionable, rev, init) ==
    [exists |-> TRUE, field |-> field, tag |-> tag, text |-> text, ctx |-> ctx,
     tealOn |-> tealOn, cls |-> cls, actionable |-> actionable, rev |-> rev,
     init |-> init]

NoLabel == [Label("", "DIV", 0, 0, 0, "") EXCEPT !.exists = FALSE]
NoInput == [Input("", "INPUT", "", {}, TRUE, 0, "", "") EXCEPT !.exists = FALSE]
NoOption == [Option("", "div", "", {}, "self", FALSE, TRUE, "", FALSE) EXCEPT !.exists = FALSE]

\* Slot 1 of labels/inputs: the control of field A, in its variants
AWidgets ==
    { [lab |-> NoLabel, inp |-> NoInput],
      [lab |-> Label("A", "LABEL", 1, 0, 100, ""),
       inp |-> Input("A", "INPUT", "", {"A"}, TRUE, 120, "", "")],
      [lab |-> Label("A", "LABEL", 1, 0, 100, ""),
       inp |-> Input("A", "INPUT", "", {"A"}, TRUE, 120, "", "5")],
      [lab |-> Label("A", "LABEL", 1, 0, 100, ""),
       inp |-> Input("A", "TEXTAREA", "", {"A"}, TRUE, 120, "", "")],
      [lab |-> Label("A", "DIV", 0, 1, 100, ""),
       inp |-> Input("A", "INPUT", "", {"A"}, TRUE, 120, "", "")],
      [lab |-> Label("A", "DIV", 0, 1, 100, ""),
       inp |-> Input("A", "INPUT", "", {"A"}, TRUE, 120, "", "5")],
      [lab |-> Label("A", "DIV", 0, 0, 100, ""),
       inp |-> Input("A", "INPUT", "", {}, TRUE, 120, "", "")],
      [lab |-> NoLabel,
       inp |-> Input("A", "INPUT", "A", {}, TRUE, 120, "", "")],
      [lab |-> NoLabel,
       inp |-> Input("A", "INPUT", "A", {}, FALSE, 120, "", "")] }

\* Slot 2 of inputs: a number input of another field, without label or hint
OWidgets ==
    { NoInput,
      Input("O", "INPUT", "", {}, TRUE, 160, "", ""),
      Input("O", "INPUT", "", {}, TRUE, 160, "", "9") }

\* Slot 3 of labels/inputs, slot 4 of options: field B, revealed by A
BWidgets ==
    { [lab |-> NoLabel, inp |-> NoInput, opt |-> NoOption],
      [lab |-> Label("B", "DIV", 0, 3, 700, "A"),
       inp |-> Input("B", "INPUT", "", {"B"}, TRUE, 720, "A", ""),
       opt |-> NoOption],
      [lab |-> NoLabel, inp |-> NoInput,
       opt |-> Option("B", "div", "Hi", {"B"}, "self", TRUE, TRUE, "A", FALSE)] }

\* Slots 1..3 of options: option "Yes" of field D (first in document order),
\* options "Yes" and "No" of field C
CWidgets ==
    { <<NoOption, NoOption, NoOption>> }
    \cup { <<NoOption,
             Option("C", tag, "Yes", {"C"}, teal, TRUE, TRUE, "", s),
             Option("C", tag, "No", {"C"}, teal, TRUE, TRUE, "", ~s)>> :
             tag \in {"div", "button"}, teal \in {"self", "parent"}, s \in BOOLEAN }
    \cup { <<NoOption,
             Option("C", tag, "Yes", {"C"}, "self", cls, FALSE, "", FALSE),
             Option("C", tag, "No", {"C"}, "self", cls, TRUE, "", TRUE)>> :
             tag \in {"div", "button"}, cls \in BOOLEAN }
    \cup { <<Option("D", tag, "Yes", {"D"}, "self", TRUE, TRUE, "", FALSE),
             Option("C", tag, "Yes", {"C"}, "self", TRUE, TRUE, "", s),
             Option("C", tag, "No", {"C"}, "self", TRUE, TRUE, "", ~s)>> :
             tag \in {"div", "button"}, s \in BOOLEAN }

\* Pages on which two elements carry the text of field A: a heading above
\* (slot 2 of labels, no sibling input) and the <label for> of its input
HeadedPages ==
    { [labs |-> <<Label("A", "LABEL", 1, 0, 100, ""),
                  Label("A", "DIV", 0, 0, 60, ""), NoLabel>>,
       ins  |-> <<Input("A", "INPUT", "", {"A"}, TRUE, 120, "", init),
                  Input("O", "INPUT", "", {}, TRUE, 160, "", ""), NoInput>>,
       opts |-> <<NoOption, NoOption, NoOption, NoOption>>] : init \in {"", "5"} }

Pages ==
    { [labs |-> <<a.lab, NoLabel, b.lab>>,
       ins  |-> <<a.inp, o, b.inp>>,
       opts |-> c \o <<b.opt>>] :
      a \in AWidgets, o \in OWidgets, b \in BWidgets, c \in CWidgets }
    \cup HeadedPages

\* the input maps a caller hands over: a dict, so no field name occurs twice
Assignments ==
    { [field |-> "A", value |-> "7"], [field |-> "B", value |-> "9"],
      [field |-> "B", value |-> "Hi"], [field |-> "C", value |-> "Yes"],
      [field |-> "Z", value |-> "7"] }

RECURSIVE InputMaps(_)
InputMaps(n) ==
    IF n = 0 THEN { << >> }
    ELSE LET shorter == InputMaps(n - 1)
         IN shorter \cup
            { Append(m, a) : m \in { x \in shorter : Len(x) = n - 1 },
                             a \in Assignments }

DistinctKeys(m) == \A i, j \in 1..Len(m) : m[i].field = m[j].field => i = j

----------------------------------------------------------------------------
(* What the page shows: conditional elements, the selected state *)

\* field f has a value: one of its inputs is non-empty or one of its options
\* is selected
FieldApplied(f) ==
    \/ \E i \in 1..Len(dom.ins) :
          dom.ins[i].exists /\ dom.ins[i].owner = f /\ val[i] # ""
    \/ \E o \in 1..Len(dom.opts) :
          dom.opts[o].exists /\ dom.opts[o].field = f /\ sel[o]

\* the element is in the document now (progressive disclosure)
Present(e) == e.exists /\ (e.rev = "" \/ FieldApplied(e.rev))

\* el.click() / a pointer click on option o: the page selects o and clears
\* the other options of its field; a click on the selected option clears it
Click(o) ==
    [x \in 1..Len(dom.opts) |->
        IF x = o THEN ~sel[o]
        ELSE IF dom.opts[x].field = dom.opts[o].field /\ ~sel[o] THEN FALSE
        ELSE sel[x]]

\* the computed-style test of strategies 2 and 3: the teal background on the
\* element or on its parent
IsTealSelfOrParent(o) == sel[o]

\* the computed-style test of strategy 4: the teal background on the element
IsTealSelf(o) == sel[o] /\ dom.opts[o].tealOn = "self"

Abs(x) == IF x < 0 THEN -x ELSE x

\* "closest.distance < 300"
ProximityThreshold == 300

\* the first element of a non-empty set of indices, in document order
First(S) == CHOOSE x \in S : \A y \in S : x <= y

----------------------------------------------------------------------------
(* Numeric path, strategy 1: the input associated with the field's label *)

\* visible, enabled <input> elements, as collected before the label loop
allInputs ==
    { i \in 1..Len(dom.ins) :
        Present(dom.ins[i]) /\ dom.ins[i].tag = "INPUT" /\ dom.ins[i].enabled }

matchingLabels(fieldName) ==
    { l \in 1..Len(dom.labs) : Present(dom.labs[l]) /\ dom.labs[l].text = fieldName }

\* labels.sort: every modelled label text is the exact field name, so the
\* order is by top (more than 10px apart), then document order
LabelBefore(a, b) ==
    IF Abs(dom.labs[a].top - dom.labs[b].top) > 10
    THEN dom.labs[a].top < dom.labs[b].top
    ELSE a < b

RECURSIVE SortLabels(_)
SortLabels(S) ==
    IF S = {} THEN << >>
    ELSE LET m == CHOOSE x \in S : \A y \in S \ {x} : LabelBefore(x, y)
         IN <<m>> \o SortLabels(S \ {m})

NoFill == [filled |-> FALSE, raised |-> FALSE, target |-> 0, route |-> "none"]
Fill(t, route) == [filled |-> TRUE, raised |-> FALSE, target |-> t, route |-> route]

\* label.tagName === 'LABEL' with a for attribute naming an element of the
\* document: the value is written, then the HTMLInputElement value setter is
\* called on it, which throws on an element that is no <input>
ForRoute(l) ==
    LET t == dom.labs[l].for
    IN IF dom.labs[l].tag = "LABEL" /\ t # 0 /\ Present(dom.ins[t])
       THEN IF dom.ins[t].tag = "INPUT"
            THEN Fill(t, "for")
            ELSE [filled |-> FALSE, raised |-> TRUE, target |-> t, route |-> "for"]
       ELSE NoFill

\* the sibling walk: an <input> following the label, skipped when it already
\* holds a different non-empty value
SiblingRoute(l, value) ==
    LET t == dom.labs[l].sib
    IN IF t # 0 /\ t \in allInputs /\ ~(val[t] # "" /\ val[t] # value)
       THEN Fill(t, "sibling")
       ELSE NoFill

Distance(l, i) == Abs(dom.ins[i].top - dom.labs[l].top)

\* the closest unfilled input, accepted below the threshold
GeometricRoute(l) ==
    LET unfilledInputs == { i \in allInputs : val[i] = "" }
    IN IF unfilledInputs = {} THEN NoFill
       ELSE LET closest == CHOOSE i \in unfilledInputs :
                    \A j \in unfilledInputs :
                        \/ Distance(l, i) < Distance(l, j)
                        \/ Distance(l, i) = Distance(l, j) /\ i <= j
            IN IF Distance(l, closest) < ProximityThreshold
               THEN Fill(closest, "near")
               ELSE NoFill

RECURSIVE LabelLoop(_, _)
LabelLoop(ls, value) ==
    IF ls = << >> THEN NoFill
    ELSE LET l == Head(ls)
         IN IF ForRoute(l) # NoFill THEN ForRoute(l)
            ELSE IF SiblingRoute(l, value) # NoFill THEN SiblingRoute(l, value)
            ELSE IF GeometricRoute(l) # NoFill THEN GeometricRoute(l)
            ELSE LabelLoop(Tail(ls), value)

FindInputNearLabel(fieldName, value) ==
    LabelLoop(SortLabels(matchingLabels(fieldName)), value)

----------------------------------------------------------------------------
(* Numeric path, strategy 2: generic selectors *)

\* input_selectors, in order.  "hint" stands for the four selectors built
\* from the field name (placeholder, aria-label, two spellings of name);
\* "number" for input[type="number"].  The two inputmode selectors match no
\* element of the modelled pages, whose inputs are all number-typed.
input_selectors == <<"hint", "number">>

\* the elements a locator for the selector matches, hidden ones included
Located(selector, fieldName) ==
    { i \in 1..Len(dom.ins) :
        /\ Present(dom.ins[i]) /\ dom.ins[i].tag = "INPUT"
        /\ IF selector = "hint" THEN dom.ins[i].hint = fieldName
                                ELSE dom.ins[i].typ = "number" }

\* element.evaluate(...): the input's container or previous sibling names the field
is_correct(i, fieldName) == fieldName \in dom.ins[i].ctx

\* the element one selector leads to fill(): the only match, or the first
\* match in context; 0 when there is none
SelectorTarget(selector, fieldName) ==
    LET els == Located(selector, fieldName)
        ok == { i \in els : is_correct(i, fieldName) }
    IN IF Cardinality(els) = 1 THEN First(els)
       ELSE IF Cardinality(els) > 1 /\ ok # {} THEN First(ok)
       ELSE 0

\* Locator.fill() raises on an element that is disabled or read-only; the
\* except clause of the selector loop then moves on to the next selector
RECURSIVE SelectorLoop(_, _)
SelectorLoop(k, fieldName) ==
    IF k > Len(input_selectors) THEN NoFill
    ELSE LET t == SelectorTarget(input_selectors[k], fieldName)
             rest == SelectorLoop(k + 1, fieldName)
         IN IF t # 0 /\ dom.ins[t].enabled THEN Fill(t, input_selectors[k])
            ELSE IF t # 0 THEN [rest EXCEPT !.raised = TRUE]
            ELSE rest

GenericSelectors(fieldName) == SelectorLoop(1, fieldName)

----------------------------------------------------------------------------
(* Discrete path: the four click strategies *)

NoClick == [clicked |-> FALSE, target |-> 0, raised |-> FALSE]
Clicks(o) == [clicked |-> TRUE, target |-> o, raised |-> FALSE]
AlreadySelected == [clicked |-> TRUE, target |-> 0, raised |-> FALSE]
ClickRaises == [clicked |-> FALSE, target |-> 0, raised |-> TRUE]

\* a simulated pointer click (page.click, Locator.click, ElementHandle.click)
\* lands on an element it can reach and raises on one it cannot
PointerClick(o) == IF dom.opts[o].actionable THEN Clicks(o) ELSE ClickRaises

WithText(tags, text) ==
    { o \in 1..Len(dom.opts) :
        Present(dom.opts[o]) /\ dom.opts[o].tag \in tags /\ dom.opts[o].text = text }

\* Strategy 1: button:has-text(value); page.click() clicks the first match
\* and raises when it cannot be reached
DirectButtonText(button_text) ==
    LET found == WithText({"button"}, button_text)
    IN IF found # {} THEN PointerClick(First(found)) ELSE NoClick

\* Strategy 2: div:text-is(value), only when the match is unique
ExactTextDiv(button_text) ==
    LET found == WithText({"div"}, button_text)
    IN IF Cardinality(found) = 1
       THEN LET element == First(found)
            IN IF IsTealSelfOrParent(element) THEN AlreadySelected
               ELSE PointerClick(element)
       ELSE NoClick

\* is_in_field: an ancestor within 5 levels contains the field name
is_in_field(o, fieldName) == fieldName \in dom.opts[o].ctx

\* Strategy 3: the first button or div with the text that lies in the field
ContextAwareSearch(fieldName, button_text) ==
    LET all_buttons == WithText({"button", "div"}, button_text)
        inField == { o \in all_buttons : is_in_field(o, fieldName) }
    IN IF inField = {} THEN NoClick
       ELSE LET button == First(inField)
            IN IF IsTealSelfOrParent(button) THEN AlreadySelected
               ELSE PointerClick(button)

\* Strategy 4: page.evaluate: the first clickable with the text in the
\* field; element.click() is a direct event dispatch and always lands
JavaScriptClick(fieldName, buttonText) ==
    LET allClickables ==
            { o \in WithText({"button", "div"}, buttonText) :
                dom.opts[o].tag = "button" \/ dom.opts[o].cls }
        near == { o \in allClickables : is_in_field(o, fieldName) }
    IN IF near = {} THEN NoClick
       ELSE IF IsTealSelf(First(near)) THEN AlreadySelected
       ELSE Clicks(First(near))

----------------------------------------------------------------------------
(* Result extraction *)

\* What the result markup of a page can hold, layer by layer ("" = nothing):
\* heading: the number in a heading of a result container; crisk: a risk
\* percentage in that container's text; prominent: a standalone number in a
\* large font; points / label / unit: the three full-text patterns
Layout(heading, crisk, prominent, points, label, unit, interp) ==
    [heading |-> heading, crisk |-> crisk, prominent |-> prominent,
     points |-> points, label |-> label, unit |-> unit, interp |-> interp]

NoResult == Layout("", "", "", "", "", "", "")

Layouts ==
    { Layout(h, r, p, g, l, u, i) :
        h \in {"", "3"}, r \in {"", "12% risk"}, p \in {"", "4"}, g \in {"", "5"},
        l \in {"", "6"}, u \in {"", "120"}, i \in {"", "Low Score (0-3 points)"} }

\* (mutant) success also counts an interpretation as a result
ExtractResultsCountingInterpretation(r) ==
    [score |-> IF r.heading # "" THEN r.heading \o " points" ELSE "",
     risk |-> IF r.heading # "" THEN r.crisk ELSE "",
     interpretation |-> r.interp,
     success |-> (r.heading # "" \/ r.interp # "")]

\* (mutant) the full-text patterns are consulted before the prominent font
ExtractResultsTextBeforeFont(r) ==
    LET score1 == IF r.heading # "" THEN r.heading \o " points" ELSE ""
        risk   == IF r.heading # "" THEN r.crisk ELSE ""
        score2 == IF score1 # "" THEN score1
                  ELSE IF r.points # "" THEN r.points \o " points"
                  ELSE IF r.label # "" THEN r.label \o " points"
                  ELSE IF r.unit # "" THEN r.unit \o " mg/dL"
                  ELSE ""
        score3 == IF score2 # "" THEN score2
                  ELSE IF r.prominent # "" THEN r.prominent \o " points" ELSE ""
    IN [score |-> score3, risk |-> risk, interpretation |-> r.interp,
        success |-> (score3 # "" \/ risk # "")]

\* (mutant) the risk percentage is taken from any result container
ExtractResultsRiskAnywhere(r) ==
    LET score1 == IF r.heading # "" THEN r.heading \o " points" ELSE ""
        score2 == IF score1 # "" THEN score1
                  ELSE IF r.prominent # "" THEN r.prominent \o " points" ELSE ""
        score3 == IF score2 # "" THEN score2
                  ELSE IF r.points # "" THEN r.points \o " points"
                  ELSE IF r.label # "" THEN r.label \o " points"
                  ELSE IF r.unit # "" THEN r.unit \o " mg/dL"
                  ELSE ""
    IN [score |-> score3, risk |-> r.crisk, interpretation |-> r.interp,
        success |-> (score3 # "" \/ r.crisk # "")]

\* the page.evaluate of the extraction step; "" stands for null
ExtractResults(r) ==
    LET score1 == IF r.heading # "" THEN r.heading \o " points" ELSE ""
        risk   == IF r.heading # "" THEN r.crisk ELSE ""
        score2 == IF score1 # "" THEN score1
                  ELSE IF r.prominent # "" THEN r.prominent \o " points" ELSE ""
        score3 == IF score2 # "" THEN score2
                  ELSE IF r.points # "" THEN r.points \o " points"
                  ELSE IF r.label # "" THEN r.label \o " points"
                  ELSE IF r.unit # "" THEN r.unit \o " mg/dL"
                  ELSE ""
    IN [score |-> score3, risk |-> risk, interpretation |-> r.interp,
        success |-> (score3 # "" \/ risk # "")]

----------------------------------------------------------------------------
(* Initial states *)

\* the operation has no page
NoPage == [ctx |-> 0, k |-> 0]

\* no line has been read, nothing has been written
NoLine == [valid |-> TRUE, id |-> 0, method |-> "none", tool |-> ""]
NoReply == [id |-> 0, kind |-> "none", code |-> 0]

\* MDCalcClient.__init__: no driver, no browser, no context
SessIdle ==
    /\ browser = 0 /\ context = 0 /\ playwright = 0
    /\ alive = {} /\ drivers = {} /\ pages = {} /\ opened = 0
    /\ sop = "idle" /\ spc = "idle" /\ sstart = "absent" /\ sres = "none"
    /\ pg = NoPage /\ nlaunch = 0
    /\ line = NoLine /\ reply = NoReply /\ relaunchFailed = FALSE

\* no request has arrived yet
NoRequest ==
    [token |-> [form |-> "none", kid |-> "", sig |-> FALSE, expired |-> FALSE,
                iss |-> FALSE, aud |-> FALSE, scope |-> << >>],
     method |-> "none", tool |-> ""]

\* no computation is being checked
NoOutput == [ran |-> FALSE]
\* the operations a client can have in flight at the same time
Tasks == {1, 2}

NoLocal == [n |-> 0, last |-> FALSE]

\* nothing was done for a request yet
NoHistory ==
    [wasInitialized |-> FALSE, inits |-> 0, initFailed |-> FALSE, toolRan |-> FALSE,
     toolFailed |-> FALSE, launches |-> 0]

\* MDCalcMCPServer.__init__
StdioIdle == initialized = FALSE /\ hist = NoHistory

ConcIdle ==
    /\ StdioIdle
    /\ tpc = [t \in Tasks |-> "idle"] /\ tpg = [t \in Tasks |-> NoPage]
    /\ tloc = [t \in Tasks |-> NoLocal] /\ crashed = {}

FnIdle == fin = [fn |-> "none"] /\ fout = NoOutput /\ ConcIdle

HttpIdle ==
    /\ req = NoRequest /\ hpc = "idle" /\ resp = 0
    /\ jwksCache = "empty" /\ calls = 0

EmptyPage ==
    [labs |-> <<NoLabel, NoLabel, NoLabel>>, ins |-> <<NoInput, NoInput, NoInput>>,
     opts |-> <<NoOption, NoOption, NoOption, NoOption>>]

PlainPage ==
    [labs |-> <<Label("A", "LABEL", 1, 0, 100, ""), NoLabel, NoLabel>>,
     ins  |-> <<Input("A", "INPUT", "", {"A"}, TRUE, 120, "", ""), NoInput, NoInput>>,
     opts |-> <<NoOption, NoOption, NoOption, NoOption>>]

\* The operations the model runs: execute_calculator on every modelled page
\* with every input map and no result markup, execute_calculator on one
\* plain page with every result markup, get_calculator_details on every page
Scenarios ==
    { [op |-> "execute", page |-> p, inputs |-> m, res |-> NoResult] :
        p \in Pages, m \in { x \in InputMaps(MaxInputs) : DistinctKeys(x) } }
    \cup { [op |-> "execute", page |-> PlainPage,
            inputs |-> <<[field |-> "A", value |-> "7"]>>, res |-> r] : r \in Layouts }
    \cup { [op |-> "details", page |-> p, inputs |-> << >>, res |-> NoResult] :
            p \in Pages }

PageInit ==
    \E s \in Scenarios :
        /\ op = s.op
        /\ dom = [labs |-> s.page.labs, ins |-> s.page.ins, opts |-> s.page.opts,
                  res |-> s.res]
        /\ inputs = s.inputs
        /\ val = [i \in 1..Len(s.page.ins) |-> s.page.ins[i].init]
        /\ sel = [o \in 1..Len(s.page.opts) |-> s.page.opts[o].init]
        /\ pc = "goto" /\ idx = 1 /\ filled = FALSE /\ clicked = FALSE
        /\ effects = << >> /\ log = << >>
        /\ shot = "none" /\ zoomed = FALSE /\ capfail = "none" /\ outcome = "none"

Init == PageInit /\ SessIdle /\ HttpIdle /\ FnIdle

----------------------------------------------------------------------------
(* execute_calculator and get_calculator_details on the page *)

sessUnchanged == UNCHANGED sessVars
httpUnchanged == UNCHANGED <<httpVars, fnVars, concVars, stdioVars>>
loopUnchanged == UNCHANGED <<dom, inputs, op, shot, zoomed, capfail, outcome>>

\* page.goto(url, wait_until='networkidle'): a failure leaves the try block
Navigate ==
    /\ pc = "goto"
    /\ \E ok \in BOOLEAN :
          pc' = IF ~ok THEN "raised" ELSE IF op = "execute" THEN "loop" ELSE "discover"
    /\ UNCHANGED <<dom, val, sel, inputs, op, idx, filled, clicked, effects, log,
                   shot, zoomed, capfail, outcome>>
    /\ sessUnchanged /\ httpUnchanged

\* for field_name, value in inputs.items(): filled = False; classify value
BeginAssignment ==
    /\ pc = "loop" /\ idx <= Len(inputs)
    /\ filled' = FALSE /\ clicked' = FALSE
    /\ log' = Append(log, idx)
    /\ pc' = IF isNumericValue(inputs[idx].value) THEN "num1" ELSE "disc1"
    /\ UNCHANGED <<val, sel, idx, effects>>
    /\ loopUnchanged /\ sessUnchanged /\ httpUnchanged

\* the loop is exhausted: wait for the results, then capture
EndLoop ==
    /\ pc = "loop" /\ idx > Len(inputs)
    /\ pc' = "capture"
    /\ UNCHANGED <<val, sel, idx, filled, clicked, effects, log>>
    /\ loopUnchanged /\ sessUnchanged /\ httpUnchanged

\* one fill or click that took effect on the page, with the state it found
Effect(kind, t) ==
    [a |-> idx, kind |-> kind, target |-> t,
     was |-> IF kind = "fill" THEN val[t] ELSE IF sel[t] THEN "selected" ELSE ""]

\* (mutant) a strategy without its except clause: the exception leaves the loop
Uncaught(r, done, next) ==
    IF r.raised THEN "raised" ELSE IF done THEN "wait" ELSE next

\* the except clause of a strategy: the failure is logged and the loop body
\* goes on with the next strategy
Caught(r, done, next) == IF done THEN "wait" ELSE next

\* Strategy 1 of the numeric path; an exception of the evaluate call is caught
NumericStrategy1 ==
    /\ pc = "num1"
    /\ LET r == FindInputNearLabel(inputs[idx].field, inputs[idx].value)
       IN /\ val' = IF r.target # 0 THEN [val EXCEPT ![r.target] = inputs[idx].value]
                                    ELSE val
          /\ effects' = IF r.target # 0 THEN Append(effects, Effect("fill", r.target))
                                        ELSE effects
          /\ filled' = r.filled
          /\ pc' = Caught(r, r.filled, "num2")
    /\ UNCHANGED <<sel, idx, clicked, log>>
    /\ loopUnchanged /\ sessUnchanged /\ httpUnchanged

\* Strategy 2 of the numeric path, entered if not filled
NumericStrategy2 ==
    /\ pc = "num2"
    /\ LET r == GenericSelectors(inputs[idx].field)
       IN /\ val' = IF r.target # 0 THEN [val EXCEPT ![r.target] = inputs[idx].value]
                                    ELSE val
          /\ effects' = IF r.target # 0 THEN Append(effects, Effect("fill", r.target))
                                        ELSE effects
          /\ filled' = r.filled
          /\ pc' = Caught(r, r.filled, "disc1")
    /\ UNCHANGED <<sel, idx, clicked, log>>
    /\ loopUnchanged /\ sessUnchanged /\ httpUnchanged

\* one click strategy of the discrete path: r is what the strategy found
ClickStep(r, next) ==
    /\ sel' = IF r.target # 0 THEN Click(r.target) ELSE sel
    /\ effects' = IF r.target # 0 THEN Append(effects, Effect("click", r.target))
                                  ELSE effects
    /\ clicked' = r.clicked
    /\ pc' = Caught(r, r.clicked, next)
    /\ UNCHANGED <<val, idx, filled, log>>
    /\ loopUnchanged /\ sessUnchanged /\ httpUnchanged

ButtonStrategy1 ==
    /\ pc = "disc1"
    /\ ClickStep(DirectButtonText(inputs[idx].value), "disc2")

ButtonStrategy2 ==
    /\ pc = "disc2"
    /\ ClickStep(ExactTextDiv(inputs[idx].value), "disc3")

ButtonStrategy3 ==
    /\ pc = "disc3"
    /\ ClickStep(ContextAwareSearch(inputs[idx].field, inputs[idx].value), "disc4")

ButtonStrategy4 ==
    /\ pc = "disc4"
    /\ ClickStep(JavaScriptClick(inputs[idx].field, inputs[idx].value), "wait")

\* page.wait_for_timeout(...) at the end of the loop body
WaitForUpdate ==
    /\ pc = "wait"
    /\ idx' = idx + 1
    /\ pc' = "loop"
    /\ UNCHANGED <<val, sel, filled, clicked, effects, log>>
    /\ loopUnchanged /\ sessUnchanged /\ httpUnchanged

\* The steps of the result capture of execute_calculator, and where one of
\* them can raise
\* ("prepare": measuring, zooming, scrolling to the top)
ResultCaptureSteps == {"prepare", "screenshot"}

\* The try block around the result capture: any failing step leads to the
\* except clause, which tries one more screenshot of the current state
ResultCapture ==
    /\ pc = "capture" /\ op = "execute"
    /\ \E failAt \in ResultCaptureSteps \cup {"none"}, errorShotOk \in BOOLEAN :
          /\ shot' = IF failAt = "none" \/ errorShotOk THEN "bytes" ELSE "none"
          /\ capfail' = IF failAt = "none" \/ errorShotOk THEN failAt ELSE "screenshot"
    /\ pc' = "extract"
    /\ UNCHANGED <<dom, val, sel, inputs, op, idx, filled, clicked, effects, log,
                   zoomed, outcome>>
    /\ sessUnchanged /\ httpUnchanged

\* the extraction script has no throw statement: a page without any result
\* pattern makes it return nulls, it does not make the call raise
ExtractionRaises(r) == FALSE

\* results = await page.evaluate(...); the capture is attached; return
ExtractAndReturn ==
    /\ pc = "extract"
    /\ IF ExtractionRaises(dom.res)
       THEN /\ outcome' = outcome
            /\ pc' = "raised"
       ELSE /\ outcome' = [results |-> ExtractResults(dom.res),
                           result_screenshot_base64 |-> shot]
            /\ pc' = "done"
    /\ UNCHANGED <<dom, val, sel, inputs, op, idx, filled, clicked, effects, log,
                   shot, zoomed, capfail>>
    /\ sessUnchanged /\ httpUnchanged

\* details = await page.evaluate(...): title, fields, url; field discovery is
\* best effort and may find nothing
ExtractStructure ==
    /\ pc = "discover"
    /\ \E ok \in BOOLEAN, nfields \in {0, 1} :
          IF ok
          THEN /\ outcome' = [fields |-> nfields, screenshot_base64 |-> "none"]
               /\ pc' = "capture"
          ELSE /\ outcome' = outcome
               /\ pc' = "raised"
    /\ UNCHANGED <<dom, val, sel, inputs, op, idx, filled, clicked, effects, log,
                   shot, zoomed, capfail>>
    /\ sessUnchanged /\ httpUnchanged

\* The steps of the snapshot capture of get_calculator_details
SnapshotSteps == {"measure", "zoom", "hide", "scroll", "screenshot", "restore"}

\* One try block holds measuring, zooming, hiding the overlays, the
\* screenshot, the restore and the base64 conversion; its except clause only
\* logs.  The function then returns details.
TakeScreenshot ==
    /\ pc = "capture" /\ op = "details"
    /\ \E failAt \in SnapshotSteps \cup {"none"}, tall \in BOOLEAN :
          /\ shot' = IF failAt = "none" THEN "bytes" ELSE "none"
          /\ outcome' = [outcome EXCEPT !.screenshot_base64 = shot']
          /\ zoomed' = \/ failAt \in {"scroll", "screenshot", "restore"}
                       \/ failAt = "hide" /\ tall
          /\ capfail' = failAt
    /\ pc' = "done"
    /\ UNCHANGED <<dom, val, sel, inputs, op, idx, filled, clicked, effects, log>>
    /\ sessUnchanged /\ httpUnchanged

Next ==
    \/ Navigate
    \/ BeginAssignment
    \/ EndLoop
    \/ NumericStrategy1
    \/ NumericStrategy2
    \/ ButtonStrategy1
    \/ ButtonStrategy2
    \/ ButtonStrategy3
    \/ ButtonStrategy4
    \/ WaitForUpdate
    \/ ResultCapture
    \/ ExtractAndReturn
    \/ ExtractStructure
    \/ TakeScreenshot

Spec == Init /\ [][Next]_vars

----------------------------------------------------------------------------
(* The browser session and the page of each operation (SpecSess) *)

\* browsers and drivers the model lets the client start
MaxLaunches == 4

\* pages the model lets exist at the same time
MaxPages == 2

\* no operation is running on a page
PageIdle ==
    /\ op = "none" /\ pc = "idle" /\ inputs = << >>
    /\ dom = [labs |-> EmptyPage.labs, ins |-> EmptyPage.ins, opts |-> EmptyPage.opts,
              res |-> NoResult]
    /\ val = [i \in 1..3 |-> ""] /\ sel = [o \in 1..4 |-> FALSE]
    /\ idx = 1 /\ filled = FALSE /\ clicked = FALSE
    /\ effects = << >> /\ log = << >>
    /\ shot = "none" /\ zoomed = FALSE /\ capfail = "none" /\ outcome = "none"

InitSess == PageIdle /\ SessIdle /\ HttpIdle /\ FnIdle

pageUnchanged == UNCHANGED <<pageVars, fnVars, concVars, stdioVars>>

\* the fields of the client and the processes behind them, as one value
Session ==
    [browser |-> browser, context |-> context, playwright |-> playwright,
     alive |-> alive, drivers |-> drivers, pages |-> pages, n |-> nlaunch,
     raised |-> FALSE]

\* where initialize() can raise: starting the driver, launching the browser,
\* creating the context
InitializeOutcomes == {"ok", "driver", "launch", "context"}

\* initialize(): start a driver, launch a browser, create a context; the
\* fields are assigned one by one, so a failure leaves the earlier ones set
DoInitialize(s, how) ==
    LET n == s.n + 1
    IN IF how = "driver" THEN [s EXCEPT !.n = n, !.raised = TRUE]
       ELSE IF how = "launch"
       THEN [s EXCEPT !.n = n, !.playwright = n, !.drivers = @ \cup {n},
                      !.raised = TRUE]
       ELSE IF how = "context"
       THEN [s EXCEPT !.n = n, !.playwright = n, !.drivers = @ \cup {n},
                      !.browser = n, !.alive = @ \cup {n}, !.raised = TRUE]
       ELSE [s EXCEPT !.n = n, !.playwright = n, !.drivers = @ \cup {n},
                      !.browser = n, !.alive = @ \cup {n}, !.context = n]

\* cleanup(): close the browser, forget the context, stop the driver
DoCleanup(s) ==
    [s EXCEPT !.alive = @ \ {s.browser},
              !.pages = { p \in @ : p.ctx # s.browser },
              !.browser = 0, !.context = 0,
              !.drivers = @ \ {s.playwright}, !.playwright = 0]

\* self.context.pages raises: the context is closed
ProbeRaises(s) == s.context \notin s.alive

\* ensure_browser_connected(): how1 and how2 are the outcomes of the first and
\* of the last-resort call of initialize()
DoEnsure(s, how1, how2) ==
    LET first == IF s.context = 0 \/ s.browser = 0
                 THEN DoInitialize(s, how1)
                 ELSE IF ProbeRaises(s)
                      THEN DoInitialize(DoCleanup(s), how1)
                      ELSE s
    IN IF first.raised
       THEN DoInitialize(DoCleanup([first EXCEPT !.raised = FALSE]), how2)
       ELSE first

\* the session as an operation finds it
Status ==
    IF context = 0 \/ browser = 0 THEN "absent"
    ELSE IF context \notin alive THEN "dead" ELSE "live"

setSession(s) ==
    /\ browser' = s.browser /\ context' = s.context /\ playwright' = s.playwright
    /\ alive' = s.alive /\ drivers' = s.drivers /\ pages' = s.pages
    /\ nlaunch' = s.n

\* start-up of either server: client.initialize()
Initialize ==
    /\ spc = "idle" /\ playwright = 0 /\ browser = 0 /\ nlaunch < MaxLaunches
    /\ \E how \in InitializeOutcomes :
          /\ setSession(DoInitialize(Session, how))
          /\ relaunchFailed' = (relaunchFailed /\ how # "ok")
    /\ UNCHANGED <<opened, sop, spc, sstart, sres, pg, line, reply>>
    /\ pageUnchanged /\ httpUnchanged

\* shutdown path of either server, or a caller of cleanup()
Cleanup ==
    /\ spc = "idle"
    /\ browser # 0 \/ context # 0 \/ playwright # 0
    /\ setSession(DoCleanup(Session))
    /\ UNCHANGED <<opened, sop, spc, sstart, sres, pg, line, reply>>
    /\ UNCHANGED relaunchFailed
    /\ pageUnchanged /\ httpUnchanged

\* the browser crashes or is closed underneath the client, between two
\* operations or while an operation has its page
ContextLost ==
    /\ spc \in {"idle", "body"}
    /\ \E b \in alive :
          /\ alive' = alive \ {b}
          /\ pages' = { p \in pages : p.ctx # b }
    /\ UNCHANGED <<browser, context, playwright, drivers, opened, sop, spc, sstart,
                   sres, pg, nlaunch, line, reply>>
    /\ UNCHANGED relaunchFailed
    /\ pageUnchanged /\ httpUnchanged

\* the ids requests carry
RequestIds == {1, 2}

\* (mutant) the error payload is written without the id of the request
ToolReplyDroppingId(id, res) ==
    [id |-> IF res \in {"ok", "no_result"} THEN id ELSE 0,
     kind |-> IF res \in {"ok", "no_result"} THEN "result" ELSE "tool_error",
     code |-> 0]

\* execute_tool and handle_request around a client operation: an exception
\* of the operation becomes a content item {success: false, error: ...}; the
\* response carries request_id either way
ToolReply(id, res) ==
    [id |-> id,
     kind |-> IF res \in {"ok", "no_result"} THEN "result" ELSE "tool_error",
     code |-> 0]

\* the operations that call ensure_browser_connected() before new_page()
EnsuringOps == {"details", "execute"}

\* a tool call reaches search_calculators, get_calculator_details or
\* execute_calculator
StartOp ==
    /\ spc = "idle" /\ nlaunch + 2 <= MaxLaunches /\ Cardinality(pages) < MaxPages
    /\ \E o \in {"search", "details", "execute"}, id \in RequestIds :
          /\ sop' = o
          /\ spc' = IF o \in EnsuringOps THEN "ensure" ELSE "newpage"
          /\ line' = [valid |-> TRUE, id |-> id, method |-> "tools/call", tool |-> o]
    /\ reply' = NoReply
    /\ sstart' = Status
    /\ opened' = 0 /\ sres' = "none" /\ pg' = NoPage
    /\ UNCHANGED <<browser, context, playwright, alive, drivers, pages, nlaunch>>
    /\ UNCHANGED relaunchFailed
    /\ pageUnchanged /\ httpUnchanged

\* await self.ensure_browser_connected(); an exception of the last-resort
\* initialize() leaves the operation
Ensure ==
    /\ spc = "ensure"
    /\ \E how1, how2 \in InitializeOutcomes :
          LET s == DoEnsure(Session, how1, how2)
          IN /\ setSession(s)
             /\ IF s.raised
                THEN /\ sres' = "launch_error" /\ sop' = sop /\ spc' = "idle"
                     /\ relaunchFailed' = TRUE
                     /\ reply' = ToolReply(line.id, sres')
                ELSE /\ sres' = sres /\ sop' = sop /\ spc' = "newpage"
                     /\ relaunchFailed' = (relaunchFailed /\ s.n = nlaunch)
                     /\ reply' = reply
    /\ UNCHANGED <<opened, sstart, pg, line>>
    /\ pageUnchanged /\ httpUnchanged

FreePage == CHOOSE k \in 1..MaxPages : \A p \in pages : p.k # k

\* page = await self.context.new_page(), outside the try block: on None or on
\* a closed context it raises and the operation ends with that error
NewPage ==
    /\ spc = "newpage"
    /\ IF context = 0 \/ context \notin alive
       THEN /\ sres' = "dead_context_error" /\ sop' = sop /\ spc' = "idle"
            /\ reply' = ToolReply(line.id, sres')
            /\ UNCHANGED <<pages, opened, pg>>
       ELSE /\ pg' = [ctx |-> context, k |-> FreePage]
            /\ pages' = pages \cup {pg'}
            /\ opened' = opened + 1
            /\ spc' = "body"
            /\ UNCHANGED <<sres, sop, reply>>
    /\ UNCHANGED <<browser, context, playwright, alive, drivers, sstart, nlaunch, line>>
    /\ UNCHANGED relaunchFailed
    /\ pageUnchanged /\ httpUnchanged

\* how the try block of an operation can end
BodyOutcomes == {"ok", "no_result", "nav_failure", "exception"}

\* the try block: navigation, interaction, capture, extraction; on a lost
\* page every call raises
Body ==
    /\ spc = "body"
    /\ \E r \in BodyOutcomes :
          /\ pg \in pages \/ r \in {"nav_failure", "exception"}
          /\ sres' = r
    /\ spc' = "finally"
    /\ UNCHANGED <<browser, context, playwright, alive, drivers, pages, opened, sop,
                   sstart, pg, nlaunch, line, reply>>
    /\ UNCHANGED relaunchFailed
    /\ pageUnchanged /\ httpUnchanged

\* (mutant) the page is closed at the end of the try block only
PagesAfterSuccess(res) == IF res \in {"ok", "no_result"} THEN pages \ {pg} ELSE pages

\* finally: await page.close()
PagesAfter(res) == pages \ {pg}

\* the finally clause, then the return or the re-raise
Finally ==
    /\ spc = "finally"
    /\ pages' = PagesAfter(sres)
    /\ sop' = sop /\ spc' = "idle"
    /\ reply' = ToolReply(line.id, sres)
    /\ UNCHANGED <<browser, context, playwright, alive, drivers, opened, sstart,
                   sres, pg, nlaunch, line>>
    /\ UNCHANGED relaunchFailed
    /\ pageUnchanged /\ httpUnchanged

\* main: json.loads(line) raises JSONDecodeError: logged, continue
ReadMalformedLine ==
    /\ spc = "idle"
    /\ line' = [valid |-> FALSE, id |-> 0, method |-> "", tool |-> ""]
    /\ reply' = NoReply
    /\ UNCHANGED <<browser, context, playwright, alive, drivers, pages, opened, sop,
                   spc, sstart, sres, pg, nlaunch>>
    /\ UNCHANGED relaunchFailed
    /\ pageUnchanged /\ httpUnchanged

\* handle_request for initialize, tools/list and any other method
ReadProtocolLine ==
    /\ spc = "idle"
    /\ \E id \in RequestIds, m \in {"initialize", "tools/list", "other"} :
          /\ line' = [valid |-> TRUE, id |-> id, method |-> m, tool |-> ""]
          /\ reply' = IF m = "other"
                      THEN [id |-> id, kind |-> "rpc_error", code |-> -32601]
                      ELSE [id |-> id, kind |-> "result", code |-> 0]
    /\ UNCHANGED <<browser, context, playwright, alive, drivers, pages, opened, sop,
                   spc, sstart, sres, pg, nlaunch>>
    /\ UNCHANGED relaunchFailed
    /\ pageUnchanged /\ httpUnchanged

NextSess ==
    \/ Initialize
    \/ Cleanup
    \/ ContextLost
    \/ StartOp
    \/ Ensure
    \/ NewPage
    \/ Body
    \/ Finally
    \/ ReadMalformedLine
    \/ ReadProtocolLine

SpecSess == InitSess /\ [][NextSess]_vars

----------------------------------------------------------------------------
(* The bearer-token check in front of the HTTP endpoint (SpecHttp) *)

Scopes == {"mdcalc:read", "mdcalc:calculate"}

\* the key ids of the key set published by the issuer
JWKSKeys == {"k1"}

\* The "scope" claim of a token payload: a space-separated string, here the
\* sequence of its words (the empty sequence for a missing or empty claim)
ScopeClaims ==
    {<< >>, <<"mdcalc:read">>, <<"mdcalc:calculate">>,
     <<"mdcalc:read", "mdcalc:calculate">>}

Token(form, kid, sig, expired, iss, aud, scope) ==
    [form |-> form, kid |-> kid, sig |-> sig, expired |-> expired,
     iss |-> iss, aud |-> aud, scope |-> scope]

\* The bearer tokens presented: a signed token with every combination of
\* flaws, a string that is no token, and a token whose header has no key id
Tokens ==
    { Token("jwt", kid, sig, expired, iss, aud, sc) :
        kid \in {"k1", "kx"}, sig \in BOOLEAN, expired \in BOOLEAN,
        iss \in BOOLEAN, aud \in BOOLEAN, sc \in ScopeClaims }
    \cup { Token(f, "", FALSE, FALSE, FALSE, FALSE, << >>) : f \in {"garbage", "nokid"} }

Methods == {"initialize", "notifications/initialized", "tools/list", "tools/call",
            "other"}

Tools == {"mdcalc_list_all", "mdcalc_search", "mdcalc_get_calculator",
          "mdcalc_execute", "unknown"}

Requests ==
    { [token |-> t, method |-> m, tool |-> IF m = "tools/call" THEN tl ELSE ""] :
        t \in Tokens, m \in Methods, tl \in Tools }

\* (mutant) the status raised inside the try block reaches the caller
AuthErrorKeepingStatus(kind) == IF kind = "jwks" THEN 500 ELSE 401

\* except JWTError / except Exception of verify_token: every failure inside
\* the try block, the HTTPException(500) of get_jwks included, becomes a 401
AuthError(kind) == 401

\* jwt.decode(token, rsa_key, algorithms, audience, issuer): "" when the
\* token passes, otherwise the check that failed
decode(t) ==
    IF ~t.sig THEN "signature"
    ELSE IF t.expired THEN "expired"
    ELSE IF ~t.aud THEN "audience"
    ELSE IF ~t.iss THEN "issuer"
    ELSE ""

\* get_jwks() under lru_cache: the key set is there if it was fetched before
\* or if the fetch succeeds now; a failed fetch is not cached
get_jwks(fetchOk) == jwksCache = "keys" \/ fetchOk

\* verify_token: 0 when the payload is returned, otherwise the status raised
verify_token(t, fetchOk) ==
    IF ~get_jwks(fetchOk) THEN AuthError("jwks")
    ELSE IF t.form = "garbage" THEN AuthError("header")
    ELSE IF t.form = "nokid" THEN AuthError("kid")
    ELSE IF t.kid \notin JWKSKeys THEN AuthError("key")
    ELSE IF decode(t) # "" THEN AuthError(decode(t))
    ELSE 0

\* get_token_scopes: scopes_string.split() if scopes_string else []
get_token_scopes(token_payload) ==
    { token_payload.scope[i] : i \in 1..Len(token_payload.scope) }

\* require_scope: TRUE when it raises HTTPException(403)
require_scope(required_scope, token_scopes) == required_scope \notin token_scopes

\* (mutant) every tool asks for the read scope
RequiredScopeReadForAll(tool) == IF tool = "unknown" THEN "" ELSE "mdcalc:read"

\* the scope execute_tool requires for a tool ("" when it requires none)
RequiredScope(tool) ==
    IF tool \in {"mdcalc_list_all", "mdcalc_search", "mdcalc_get_calculator"}
    THEN "mdcalc:read"
    ELSE IF tool = "mdcalc_execute" THEN "mdcalc:calculate" ELSE ""

\* the tools whose client operation opens a page of its own
PageTools == {"mdcalc_search", "mdcalc_get_calculator", "mdcalc_execute"}

InitHttp == PageIdle /\ SessIdle /\ HttpIdle /\ FnIdle

httpFrame == UNCHANGED <<browser, context, playwright, alive, drivers, pages, sop, spc,
                         sstart, sres, pg, nlaunch, line, reply, relaunchFailed,
                         concVars, stdioVars>>

\* a POST /sse arrives with a bearer token
Receive ==
    /\ hpc = "idle"
    /\ req' \in Requests
    /\ hpc' = "auth" /\ resp' = 0 /\ calls' = 0 /\ opened' = 0
    /\ UNCHANGED jwksCache
    /\ httpFrame /\ pageUnchanged

\* Depends(verify_token): runs before the body of mcp_endpoint; an
\* HTTPException is the response
VerifyToken ==
    /\ hpc = "auth"
    /\ \E fetchOk \in BOOLEAN :
          LET status == verify_token(req.token, fetchOk)
          IN /\ jwksCache' = IF get_jwks(fetchOk) THEN "keys" ELSE jwksCache
             /\ resp' = status
             /\ hpc' = IF status = 0 THEN "handler" ELSE "idle"
    /\ UNCHANGED <<req, calls, opened>>
    /\ httpFrame /\ pageUnchanged

\* mcp_endpoint for every method but tools/call
HandleProtocol ==
    /\ hpc = "handler" /\ req.method # "tools/call"
    /\ resp' = IF req.method = "notifications/initialized" THEN 204 ELSE 200
    /\ hpc' = "idle"
    /\ UNCHANGED <<req, jwksCache, calls, opened>>
    /\ httpFrame /\ pageUnchanged

\* mcp_endpoint for tools/call: execute_tool checks the scope, then calls
\* the client; an operation on a page may or may not get its page
HandleToolsCall ==
    /\ hpc = "handler" /\ req.method = "tools/call"
    /\ IF /\ RequiredScope(req.tool) # ""
          /\ require_scope(RequiredScope(req.tool), get_token_scopes(req.token))
       THEN resp' = 403 /\ calls' = 0 /\ opened' = 0
       ELSE /\ resp' = 200
            /\ calls' = IF req.tool = "unknown" THEN 0 ELSE 1
            /\ \E gotPage \in BOOLEAN :
                  opened' = IF req.tool \in PageTools /\ gotPage THEN 1 ELSE 0
    /\ hpc' = "idle"
    /\ UNCHANGED <<req, jwksCache>>
    /\ httpFrame /\ pageUnchanged

NextHttp ==
    \/ Receive
    \/ VerifyToken
    \/ HandleProtocol
    \/ HandleToolsCall

SpecHttp == InitHttp /\ [][NextHttp]_vars

----------------------------------------------------------------------------
(* Computations of the client checked on their own inputs (SpecFn) *)

\* Heights are counted in a unit of the reader's choice (100 px, say): the
\* zoom depends on the ratio of the two heights only.
MaxViewport == 8
MaxHeight == 20

\* int((viewport_height / target_height) * 90) in double arithmetic.  The
\* quotient and the product are each rounded to the nearest double; the
\* integer part of the result is the integer part of the exact value except
\* where the exact value is an integer and the product falls just below it.
\* Among the ratios with V <= 12 and H < 40 that happens for V/H = 7/10
\* alone: (7 / 10) * 90 = 62.99999999999999.
IntOfProduct(V, H) ==
    ((90 * V) \div H) - (IF 10 * V = 7 * H THEN 1 ELSE 0)

Max(a, b) == IF a > b THEN a ELSE b
Min(a, b) == IF a < b THEN a ELSE b

\* (mutant) the rule of the result capture: 85% of the viewport, floor 40
ResultZoom(V, H) == Max(40, Min(((85 * V) \div H), 100))

\* optimal_zoom = max(50, min(int((V / H) * 90), 100))
SnapshotZoom(V, H) == Max(50, Min(IntOfProduct(V, H), 100))

\* target_height = last_field_bottom if last_field_bottom > 0 else calc_height
target_height(m) ==
    IF m.lastFieldBottom > 0 THEN m.lastFieldBottom ELSE m.calcHeight

\* execute_calculator, result capture:
\* optimal_zoom = max(40, min(int((V / H) * 85), 100)).  For the ratios with
\* V <= 12, H < 45 and H > V the double product has the integer part of the
\* exact value.
ResultCaptureZoom(V, H) == Max(40, Min((85 * V) \div H, 100))

\* what the measuring script of the result capture can return
ResultMeasurements ==
    { [fn |-> "rzoom", viewportHeight |-> v, contentHeight |-> h] :
        v \in 1..MaxViewport, h \in 0..MaxHeight }

\* what the measuring script can return
Measurements ==
    { [fn |-> "zoom", viewportHeight |-> v, calcHeight |-> c, lastFieldBottom |-> l] :
        v \in 1..MaxViewport, c \in 0..MaxHeight, l \in {0, 3, 10, MaxHeight} }

\* result rows of the search page the model lets exist, and the largest limit
MaxRows == 3
MaxLimit == 2

\* A result row: its link is missing ("none"), has the form /calc/<digits>/<slug>
\* ("numeric") or has no digits after /calc/ ("slug"); its title text, trimmed
ResultRows ==
    { [link |-> l, title |-> t] : l \in {"none", "numeric", "slug"}, t \in {"", "T"} }

RECURSIVE SeqsUpTo(_, _)
SeqsUpTo(S, n) ==
    IF n = 0 THEN {<< >>}
    ELSE LET shorter == SeqsUpTo(S, n - 1)
         IN shorter \cup { Append(q, x) : q \in { r \in shorter : Len(r) = n - 1 }, x \in S }

SearchPages ==
    { [fn |-> "search", rows |-> rs, noTool |-> nt, limit |-> lim] :
        rs \in SeqsUpTo(ResultRows, MaxRows), nt \in BOOLEAN, lim \in 0..MaxLimit }

\* the object the map callback builds for row k (null without a link)
Candidate(rows, k) ==
    [row |-> k,
     isNull |-> rows[k].link = "none",
     url |-> IF rows[k].link = "none" THEN "" ELSE "href",
     id |-> IF rows[k].link = "numeric" THEN "1752" ELSE "",
     title |-> rows[k].title]

\* Array.from(resultRows).slice(0, limit).map(...)
Sliced(rows, limit) == [k \in 1..Min(limit, Len(rows)) |-> Candidate(rows, k)]

\* .filter(item => item && item.url)
RECURSIVE Filtered(_)
Filtered(cs) ==
    IF cs = << >> THEN << >>
    ELSE IF ~Head(cs).isNull /\ Head(cs).url # ""
         THEN <<Head(cs)>> \o Filtered(Tail(cs))
         ELSE Filtered(Tail(cs))

\* the page.evaluate of search_calculators
SearchResults(p) ==
    IF p.noTool THEN << >>
    ELSE IF Len(p.rows) = 0 THEN << >>
    ELSE Filtered(Sliced(p.rows, p.limit))

\* entries of the catalog file the model lets exist, and the longest name
MaxCatalog == 2
MaxNameLen == 102

\* if len(name) > 100: name = name[:97] + '...'
NameLimit == 100
KeptChars == 97

\* a name of n characters, none of them a dot
Name(n) == [i \in 1..n |-> IF i % 3 = 0 THEN "a" ELSE IF i % 3 = 1 THEN "b" ELSE "c"]

NameLengths == {0, 1, KeptChars, NameLimit - 1, NameLimit, NameLimit + 1, MaxNameLen}

\* An entry of catalog['calculators']: it has more keys than the three that
\* are returned, and may lack the category
CatalogEntries ==
    { [id |-> "1752", name |-> Name(n), hasCategory |-> h, category |-> c,
       url |-> "u", slug |-> "s"] :
        n \in NameLengths, h \in BOOLEAN, c \in {"Cardiology", "Nephrology"} }

Catalogs ==
    { [fn |-> "catalog", calculators |-> cs] : cs \in SeqsUpTo(CatalogEntries, MaxCatalog) }

\* (mutant) the first 100 characters are kept before the dots
TruncateAfterLimit(name) ==
    IF Len(name) > NameLimit
    THEN SubSeq(name, 1, NameLimit) \o <<".", ".", ".">>
    ELSE name

\* name[:97] + '...' for a name of more than 100 characters
Truncate(name) ==
    IF Len(name) > NameLimit
    THEN SubSeq(name, 1, KeptChars) \o <<".", ".", ".">>
    ELSE name

\* the list get_all_calculators builds
Optimized(catalog) ==
    [k \in 1..Len(catalog) |->
        [id |-> catalog[k].id,
         name |-> Truncate(catalog[k].name),
         category |-> IF catalog[k].hasCategory THEN catalog[k].category
                                                ELSE "General"]]

\* by_category of the list-all tool: for each category the positions of
\* the entries appended to its list, in order
RECURSIVE Positions(_, _, _)
Positions(cs, c, k) ==
    IF k > Len(cs) THEN << >>
    ELSE (IF cs[k].category = c THEN <<k>> ELSE << >>) \o Positions(cs, c, k + 1)

ListAllResponse(cs) ==
    [success |-> TRUE,
     total_count |-> Len(cs),
     calculators_by_category |->
        [c \in { cs[k].category : k \in 1..Len(cs) } |-> Positions(cs, c, 1)],
     all_calculators |-> cs]

\* elements of the page the model lets the hiding script see
MaxElements == 2

\* An element as the hiding script sees it: display is its inline display
\* value ("" when it has none); resultClass: its class matches one of the
\* result selectors; sticky: its position is sticky or fixed and its text
\* names a result; marker: its data-original-display attribute
Unmarked == [has |-> FALSE, v |-> ""]
Marked(v) == [has |-> TRUE, v |-> v]

Elements ==
    { [display |-> d, resultClass |-> c, sticky |-> k, marker |-> Unmarked] :
        d \in {"", "block", "none"}, c \in BOOLEAN, k \in BOOLEAN }

OverlayPages ==
    { [fn |-> "overlay", elements |-> es] : es \in SeqsUpTo(Elements, MaxElements) }

\* el.setAttribute('data-original-display', el.style.display);
\* el.style.display = 'none'
HideElement(el) == [el EXCEPT !.marker = Marked(el.display), !.display = "none"]

\* first pass: the elements of the result classes
HideResults(es) ==
    [k \in 1..Len(es) |-> IF es[k].resultClass THEN HideElement(es[k]) ELSE es[k]]

\* second pass: the sticky or fixed elements whose text names a result
HideSticky(es) ==
    [k \in 1..Len(es) |-> IF es[k].sticky THEN HideElement(es[k]) ELSE es[k]]

\* restore: for every element with the attribute,
\* el.style.display = el.getAttribute('data-original-display') || '';
\* el.removeAttribute('data-original-display')
Restore(es) ==
    [k \in 1..Len(es) |->
        IF es[k].marker.has
        THEN [es[k] EXCEPT !.display = es[k].marker.v, !.marker = Unmarked]
        ELSE es[k]]

FnInputs ==
    Measurements \cup ResultMeasurements \cup SearchPages \cup Catalogs \cup OverlayPages

InitFn ==
    /\ PageIdle /\ SessIdle /\ HttpIdle
    /\ fin \in FnInputs /\ fout = NoOutput /\ ConcIdle

fnFrame == UNCHANGED <<pageVars, sessVars, httpVars, concVars, stdioVars>>

\* get_calculator_details: optimal_zoom = 100; if target_height >
\* viewport_height the zoom is computed and applied to the page
ComputeSnapshotZoom ==
    /\ fin.fn = "zoom" /\ ~fout.ran
    /\ LET H == target_height(fin)
           V == fin.viewportHeight
       IN fout' = IF H > V
                  THEN [ran |-> TRUE, zoom |-> SnapshotZoom(V, H), applied |-> TRUE]
                  ELSE [ran |-> TRUE, zoom |-> 100, applied |-> FALSE]
    /\ UNCHANGED fin
    /\ fnFrame

\* execute_calculator: if content_height > viewport_height the zoom of the
\* result capture is computed and applied to the page
ComputeResultZoom ==
    /\ fin.fn = "rzoom" /\ ~fout.ran
    /\ LET H == fin.contentHeight
           V == fin.viewportHeight
       IN fout' = IF H > V
                  THEN [ran |-> TRUE, zoom |-> ResultCaptureZoom(V, H), applied |-> TRUE]
                  ELSE [ran |-> TRUE, zoom |-> 100, applied |-> FALSE]
    /\ UNCHANGED fin
    /\ fnFrame

\* get_calculator_details: the overlays are hidden, the screenshot is
\* taken, the restore script runs
HideAndRestore ==
    /\ fin.fn = "overlay" /\ ~fout.ran
    /\ LET hidden == HideSticky(HideResults(fin.elements))
       IN fout' = [ran |-> TRUE, hidden |-> hidden, elements |-> Restore(hidden)]
    /\ UNCHANGED fin
    /\ fnFrame

\* search_calculators: calculators = await page.evaluate(...); return
EvaluateSearch ==
    /\ fin.fn = "search" /\ ~fout.ran
    /\ fout' = [ran |-> TRUE, calculators |-> SearchResults(fin)]
    /\ UNCHANGED fin
    /\ fnFrame

\* the list-all tool: get_all_calculators, then the grouped response
ListAll ==
    /\ fin.fn = "catalog" /\ ~fout.ran
    /\ LET cs == Optimized(fin.calculators)
       IN fout' = [ran |-> TRUE, calculators |-> cs, response |-> ListAllResponse(cs)]
    /\ UNCHANGED fin
    /\ fnFrame

NextFn ==
    \/ ComputeSnapshotZoom
    \/ ComputeResultZoom
    \/ EvaluateSearch
    \/ ListAll
    \/ HideAndRestore

SpecFn == InitFn /\ [][NextFn]_vars

----------------------------------------------------------------------------
(* Operations in flight at the same time on the client of the HTTP server  *)
(* (SpecConc).  The endpoint is a coroutine per request; the operations of *)
(* two requests interleave at every await.  An action is the code between  *)
(* two suspensions of one operation.                                       *)

\* drivers and browsers the model lets the client start, the one of the
\* start-up included
MaxConcLaunches == 5

\* browsers the model lets crash
MaxCrashes == 1

\* lifespan: mdcalc_client = MDCalcClient(); await mdcalc_client.initialize()
InitConc ==
    /\ PageIdle /\ HttpIdle /\ fin = [fn |-> "none"] /\ fout = NoOutput
    /\ browser = 1 /\ context = 1 /\ playwright = 1
    /\ alive = {1} /\ drivers = {1} /\ pages = {} /\ nlaunch = 1
    /\ opened = 0 /\ sop = "idle" /\ spc = "idle" /\ sstart = "absent"
    /\ sres = "none" /\ pg = NoPage
    /\ line = NoLine /\ reply = NoReply /\ relaunchFailed = FALSE
    /\ ConcIdle

concFrame ==
    UNCHANGED <<pageVars, httpVars, fnVars, stdioVars, opened, sop, spc, sstart,
                sres, pg, line, reply, relaunchFailed>>

\* what a suspended operation resumes with: the client's fields and the
\* processes behind them (s), its next suspension (at), its locals
Susp(s, at, n, last, page) ==
    [s |-> s, pc |-> at, loc |-> [n |-> n, last |-> last], page |-> page]

\* browser.close(): the browser process and its pages are gone
CloseBrowser(s, b) ==
    [s EXCEPT !.alive = @ \ {b}, !.pages = { p \in @ : p.ctx # b }]

\* playwright.stop(): the driver is gone, and the browser it launched with it
StopDriver(s, d) ==
    [CloseBrowser(s, d) EXCEPT !.drivers = @ \ {d}]

\* initialize() up to its first suspension: async_playwright().start()
BeginInitialize(s, last) ==
    Susp([s EXCEPT !.n = @ + 1, !.drivers = @ \cup {s.n + 1}],
         "started", s.n + 1, last, NoPage)

\* cleanup() from `if self.context:` to its next suspension,
\* self.playwright.stop(); without a driver it returns and initialize() begins
CleanupContext(s, last) ==
    LET s1 == [s EXCEPT !.context = 0]
    IN IF s1.playwright # 0
       THEN Susp(StopDriver(s1, s1.playwright), "stopped", 0, last, NoPage)
       ELSE BeginInitialize(s1, last)

\* cleanup() up to its first suspension: self.browser.close()
BeginCleanup(s, last) ==
    IF s.browser # 0
    THEN Susp(CloseBrowser(s, s.browser), "closed", 0, last, NoPage)
    ELSE CleanupContext(s, last)

\* an exception inside ensure_browser_connected: the except clause runs
\* cleanup() and initialize() as a last resort; an exception there leaves
\* the operation
RaiseInEnsure(s, last) ==
    IF last THEN Susp(s, "idle", 0, FALSE, NoPage) ELSE BeginCleanup(s, TRUE)

FreePageOf(s) == CHOOSE k \in 1..MaxPages : \A p \in s.pages : p.k # k

\* page = await self.context.new_page(); on None or on a closed context it
\* raises and the operation ends
BeginNewPage(s) ==
    IF s.context = 0 \/ s.context \notin s.alive
    THEN Susp(s, "idle", 0, FALSE, NoPage)
    ELSE LET p == [ctx |-> s.context, k |-> FreePageOf(s)]
         IN Susp([s EXCEPT !.pages = @ \cup {p}], "body", 0, FALSE, p)

\* ensure_browser_connected() up to its first suspension
BeginEnsure(s) ==
    IF s.context = 0 \/ s.browser = 0 THEN BeginInitialize(s, FALSE)
    ELSE IF ProbeRaises(s) THEN BeginCleanup(s, FALSE)
    ELSE BeginNewPage(s)

\* operation t goes on to its next suspension
Resume(t, r) ==
    /\ r.s.n <= MaxConcLaunches
    /\ setSession(r.s)
    /\ tpc' = [tpc EXCEPT ![t] = r.pc]
    /\ tloc' = [tloc EXCEPT ![t] = r.loc]
    /\ tpg' = [tpg EXCEPT ![t] = r.page]
    /\ UNCHANGED crashed
    /\ concFrame

\* a request reaches get_calculator_details or execute_calculator
StartEnsuringOp(t) ==
    /\ tpc[t] = "idle"
    /\ Resume(t, BeginEnsure(Session))

\* a request reaches search_calculators
StartSearch(t) ==
    /\ tpc[t] = "idle"
    /\ Resume(t, BeginNewPage(Session))

\* after await self.browser.close(): self.browser = None, and on
AfterClose(t) ==
    /\ tpc[t] = "closed"
    /\ Resume(t, CleanupContext([Session EXCEPT !.browser = 0], tloc[t].last))

\* after await self.playwright.stop(): self.playwright = None; cleanup()
\* returns and initialize() begins
AfterStop(t) ==
    /\ tpc[t] = "stopped"
    /\ Resume(t, BeginInitialize([Session EXCEPT !.playwright = 0], tloc[t].last))

\* self.playwright = <the started driver>; chromium.launch(...)
AfterStart(t) ==
    /\ tpc[t] = "started"
    /\ LET n == tloc[t].n
           s == [Session EXCEPT !.playwright = n]
       IN Resume(t, IF n \in s.drivers
                    THEN Susp([s EXCEPT !.alive = @ \cup {n}], "launched", n,
                              tloc[t].last, NoPage)
                    ELSE RaiseInEnsure(s, tloc[t].last))

\* self.browser = <the launched browser>; self.browser.new_context(...)
AfterLaunch(t) ==
    /\ tpc[t] = "launched"
    /\ LET n == tloc[t].n
           s == [Session EXCEPT !.browser = n]
       IN Resume(t, IF n \in s.alive
                    THEN Susp(s, "contexted", n, tloc[t].last, NoPage)
                    ELSE RaiseInEnsure(s, tloc[t].last))

\* self.context = <the new context>; initialize() and
\* ensure_browser_connected() return; self.context.new_page()
AfterContext(t) ==
    /\ tpc[t] = "contexted"
    /\ Resume(t, BeginNewPage([Session EXCEPT !.context = tloc[t].n]))

\* the try block on the page, then finally: await page.close()
FinishOp(t) ==
    /\ tpc[t] = "body"
    /\ Resume(t, Susp([Session EXCEPT !.pages = @ \ {tpg[t]}], "idle", 0, FALSE,
                      NoPage))

\* a browser crashes underneath the client
Crash ==
    /\ Cardinality(crashed) < MaxCrashes
    /\ \E b \in alive :
          /\ alive' = alive \ {b}
          /\ pages' = { p \in pages : p.ctx # b }
          /\ crashed' = crashed \cup {b}
    /\ UNCHANGED <<browser, context, playwright, drivers, nlaunch, tpc, tpg, tloc>>
    /\ concFrame

NextConc ==
    \/ \E t \in Tasks : StartEnsuringOp(t)
    \/ \E t \in Tasks : StartSearch(t)
    \/ \E t \in Tasks : AfterClose(t)
    \/ \E t \in Tasks : AfterStop(t)
    \/ \E t \in Tasks : AfterStart(t)
    \/ \E t \in Tasks : AfterLaunch(t)
    \/ \E t \in Tasks : AfterContext(t)
    \/ \E t \in Tasks : FinishOp(t)
    \/ Crash

SpecConc == InitConc /\ [][NextConc]_vars

----------------------------------------------------------------------------
(* handle_request of the line-delimited server (SpecStdio): one action per *)
(* request, from the parsed line to the response.                          *)

\* drivers and browsers the model lets the server's clients start
MaxStdioLaunches == 4

\* What json.loads hands to handle_request: a JSON object with or without
\* an id (0 stands for none), or another JSON value (an array, a number)
StdioTools ==
    {"mdcalc_list_all", "mdcalc_search", "mdcalc_get_calculator", "mdcalc_execute",
     "unknown"}

StdioRequests ==
    { [valid |-> TRUE, object |-> TRUE, id |-> i, method |-> m, tool |-> ""] :
        i \in RequestIds \cup {0}, m \in {"initialize", "tools/list", "other"} }
    \cup { [valid |-> TRUE, object |-> TRUE, id |-> i, method |-> "tools/call",
            tool |-> t] : i \in RequestIds \cup {0}, t \in StdioTools }
    \cup { [valid |-> TRUE, object |-> FALSE, id |-> 0, method |-> "", tool |-> ""] }

\* the dict handle_request returns; Escaped: an exception left it instead
Response(id, kind, code, success) ==
    [id |-> id, kind |-> kind, code |-> code, success |-> success]

Escaped == Response(0, "escaped", 0, "none")

\* (mutant) the client is initialized for every tools/call
NeedsInitializeAlways(method, inited) == method = "tools/call"

\* if method == 'tools/call' and not self.initialized: await self.initialize()
NeedsInitialize(method, inited) == method = "tools/call" /\ ~inited

\* MDCalcMCPServer.initialize: self.client = MDCalcClient(), whose fields
\* are None, then client.initialize()
ServerInitialize(s, how) ==
    DoInitialize([s EXCEPT !.browser = 0, !.context = 0, !.playwright = 0], how)

\* the tools that reach an operation calling ensure_browser_connected()
StdioEnsuringTools == {"mdcalc_get_calculator", "mdcalc_execute"}

\* execute_tool: the session after the tool; an exception of the client is
\* caught and reported in the content
ToolSession(s, tool, how1, how2) ==
    IF tool \in StdioEnsuringTools THEN DoEnsure(s, how1, how2) ELSE s

\* {'jsonrpc': '2.0', 'id': request_id, 'result': result} with the content
\* execute_tool returns
ToolResponse(id, failed) ==
    Response(id, "result", 0, IF failed THEN "false" ELSE "true")

InitStdio ==
    /\ PageIdle /\ SessIdle /\ HttpIdle /\ FnIdle

stdioFrame ==
    UNCHANGED <<pageVars, httpVars, fnVars, concVars, opened, sop, spc, sstart, sres,
                pg, relaunchFailed>>

\* the outcomes of a call that can be made; of one that is not made, none
OutcomesIf(made) == IF made THEN InitializeOutcomes ELSE {"ok"}

\* the session needs a launch when ensure_browser_connected() looks at it
NeedsRecovery(s) == s.context = 0 \/ s.browser = 0 \/ ProbeRaises(s)

\* handle_request for a JSON object: init and s1 are the lazy initialization
\* and the session after it, s2 the session after the tool
HandleObject(request, init, s1, s2, toolRaises) ==
    LET initFailed == init /\ s1.raised
        runs == request.method = "tools/call" /\ ~initFailed
        failed == runs /\ (s2.raised \/ toolRaises \/ request.tool = "unknown")
    IN /\ s2.n <= MaxStdioLaunches
       /\ setSession(s2)
       /\ initialized' = (initialized \/ (init /\ ~initFailed))
       /\ hist' = [wasInitialized |-> initialized,
                   inits |-> IF init THEN 1 ELSE 0,
                   initFailed |-> initFailed,
                   toolRan |-> runs,
                   toolFailed |-> failed,
                   launches |-> s2.n - nlaunch]
       /\ reply' =
            IF initFailed THEN Response(request.id, "error", -32603, "none")
            ELSE IF request.method \in {"initialize", "tools/list"}
            THEN Response(request.id, "result", 0, "none")
            ELSE IF request.method = "tools/call"
            THEN ToolResponse(request.id, failed)
            ELSE Response(request.id, "error", -32601, "none")

\* response = await server.handle_request(request)
HandleRequest ==
    \E request \in StdioRequests :
        /\ line' = request
        /\ stdioFrame
        /\ IF ~request.object
           THEN \* request.get('id') raises before the try block
                /\ reply' = Escaped
                /\ hist' = [NoHistory EXCEPT !.wasInitialized = initialized]
                /\ UNCHANGED <<initialized, browser, context, playwright, alive,
                               drivers, pages, nlaunch>>
           ELSE LET init == NeedsInitialize(request.method, initialized)
                IN \E how \in OutcomesIf(init) :
                     LET s1 == IF init THEN ServerInitialize(Session, how) ELSE Session
                         runs == request.method = "tools/call" /\ ~s1.raised
                         recovers == /\ runs /\ request.tool \in StdioEnsuringTools
                                     /\ NeedsRecovery(s1)
                     IN \E how1 \in OutcomesIf(recovers) :
                        \E how2 \in OutcomesIf(recovers /\ how1 # "ok") :
                        \E toolRaises \in
                              IF runs /\ request.tool # "unknown" THEN BOOLEAN
                                                                  ELSE {FALSE} :
                           HandleObject(request, init, s1,
                               IF runs THEN ToolSession(s1, request.tool, how1, how2)
                                       ELSE s1,
                               toolRaises)

\* MDCalcMCPServer.cleanup: if self.client: client.cleanup();
\* self.initialized = False (on a client that holds nothing it changes
\* nothing)
ServerCleanup ==
    /\ browser # 0 \/ context # 0 \/ playwright # 0 \/ initialized
    /\ setSession(DoCleanup(Session))
    /\ initialized' = FALSE
    /\ UNCHANGED <<line, reply, hist>>
    /\ stdioFrame

\* the browser crashes or is closed underneath the client, between two
\* requests
StdioContextLost ==
    /\ \E b \in alive :
          /\ alive' = alive \ {b}
          /\ pages' = { p \in pages : p.ctx # b }
    /\ UNCHANGED <<browser, context, playwright, drivers, nlaunch, line, reply>>
    /\ UNCHANGED stdioVars
    /\ stdioFrame

NextStdio ==
    \/ HandleRequest
    \/ ServerCleanup
    \/ StdioContextLost

SpecStdio == InitStdio /\ [][NextStdio]_vars

----------------------------------------------------------------------------
(* Properties of field resolution, capture and extraction (Spec) *)

EffectsOf(i) == { k \in 1..Len(effects) : effects[k].a = i }

\* C1: within one execute_calculator call at most one fill or click takes
\* effect on the page for each assignment of the input map, also when an
\* earlier strategy raised and a fallback strategy ran.
C1_AppliedAtMostOnce ==
    \A i \in 1..Len(inputs) : Cardinality(EffectsOf(i)) <= 1

LoopStages == {"num1", "num2", "disc1", "disc2", "disc3", "disc4", "wait"}

\* the capture step of the operation has run
CaptureRan == ~(shot = "none" /\ capfail = "none")

\* C4: once navigation has succeeded, execute_calculator enters the loop body
\* for every assignment exactly once, in the order of the input map; no
\* failing strategy ends the operation, and the capture and extraction steps
\* are reached with every assignment attempted.
C4_EveryAssignmentAttempted ==
    op = "execute" =>
        /\ log = [k \in 1..Len(log) |-> k]
        /\ (pc \in LoopStages => Len(log) = idx /\ idx <= Len(inputs))
        /\ (pc = "loop" => Len(log) = idx - 1)
        /\ (pc \in {"capture", "extract", "done"} => Len(log) = Len(inputs))
        /\ (pc = "raised" => log = << >> /\ ~CaptureRan)
        /\ (pc \notin {"done", "raised"} => ENABLED Next)

\* C4 witness: the first of two assignments targets an option no pointer
\* click can reach, every strategy for it failed, and the second assignment
\* was applied before the extraction step
C4_Witness ==
    /\ op = "execute" /\ pc = "extract" /\ Len(inputs) = 2
    /\ inputs[1].field = "C" /\ dom.opts[2].exists /\ ~dom.opts[2].actionable
    /\ EffectsOf(1) = {} /\ EffectsOf(2) # {}

\* C5: a discrete assignment never clicks an option that is already in the
\* selected state, whichever strategy finds the option.
C5_SelectedOptionNotClicked ==
    \A k \in 1..Len(effects) : effects[k].kind = "click" => effects[k].was = ""

\* C7: an assignment whose field name matches no label, input or option of
\* the page changes nothing on the page.
C7_NoMatchNoChange ==
    \A i \in 1..Len(inputs) : inputs[i].field = "Z" => EffectsOf(i) = {}

\* C8: an operation that returns after a successful navigation returns a
\* non-empty capture, also when a step preparing the capture failed (the
\* screenshot primitive itself working).
C8_CaptureWheneverNavigated ==
    (pc = "done" /\ capfail # "screenshot") => shot = "bytes"

\* C9: execute_calculator returns success = true exactly when a score or a
\* risk value was extracted; on a page without any result pattern it returns
\* success = false with the capture attached; no exception is raised once
\* the page has been reached.
C9_SuccessIffResult ==
    op = "execute" =>
        /\ pc = "done" =>
              /\ outcome.results.success <=>
                    (outcome.results.score # "" \/ outcome.results.risk # "")
              /\ outcome.results.success <=>
                    (\E f \in {"heading", "prominent", "points", "label", "unit"} :
                        dom.res[f] # "")
              /\ outcome.result_screenshot_base64 = shot
        /\ pc = "raised" => ~CaptureRan

\* C9 witness: the call returned from a page without any result pattern
C9_Witness ==
    /\ op = "execute" /\ pc = "done" /\ dom.res = NoResult
    /\ ~outcome.results.success /\ outcome.result_screenshot_base64 = "bytes"

\* field B is on the page only after field A has a value, and A has none yet
BHiddenAtStart ==
    /\ dom.ins[1].exists /\ dom.ins[1].init = ""
    /\ dom.ins[3].exists \/ dom.opts[4].exists

\* the assignment for B carries a value of the kind B's control takes
BFits(a) ==
    /\ a.field = "B"
    /\ a.value = IF dom.ins[3].exists THEN "9" ELSE "Hi"

BResolved ==
    \/ dom.ins[3].exists /\ val[3] = "9"
    \/ dom.opts[4].exists /\ sel[4]

LoopDone == op = "execute" /\ pc \in {"capture", "extract", "done"}

\* the page lets the engine find A's control from the field name
AResolvable ==
    /\ dom.ins[1].tag = "INPUT" /\ dom.ins[1].enabled
    /\ dom.labs[1].exists \/ dom.ins[1].hint = "A"

\* C6: with field B revealed by field A's value, the input map [A, B]
\* resolves B; the input map [B, A] leaves B unresolved, still applies A's
\* value to A's control, and the call goes on to return an outcome.
C6_OrderSensitivity ==
    (BHiddenAtStart /\ AResolvable /\ Len(inputs) = 2) =>
        /\ (LoopDone /\ inputs[1].field = "A" /\ BFits(inputs[2])) => BResolved
        /\ (LoopDone /\ BFits(inputs[1]) /\ inputs[2].field = "A") =>
               (~BResolved /\ val[1] = "7")
        /\ (BFits(inputs[1]) /\ inputs[2].field = "A" /\ pc = "raised") => log = << >>

----------------------------------------------------------------------------
(* Properties of the session and of the page life cycle (SpecSess) *)

\* C2: an operation opens at most one page, exactly one on every path that
\* goes through its try block (success, no result, navigation failure,
\* exception while the page is in use), and the page is closed when the
\* operation returns: between operations no page is open.
C2_OnePagePerOperation ==
    /\ opened <= 1
    /\ spc \in {"body", "finally"} => (opened = 1 /\ pg # NoPage)
    /\ (spc = "idle" /\ sres \in BodyOutcomes) => opened = 1
    /\ spc = "idle" => pages = {}

\* C2 witness: an operation whose try block raised on a page that was still
\* open has returned
C2_Witness ==
    /\ spc = "idle" /\ sres = "exception" /\ opened = 1
    /\ pg.ctx \in alive /\ pages = {}

\* C3: an operation that finds the session dead or absent never ends with
\* the error of a dead or missing context; it fails only if the re-launch does.
C3_DeadSessionRelaunched ==
    sstart \in {"absent", "dead"} => sres # "dead_context_error"

----------------------------------------------------------------------------
(* Properties of the HTTP endpoint (SpecHttp) *)

\* the token is one the issuer's key set vouches for, unexpired, for this API
ValidToken(t) ==
    /\ t.form = "jwt" /\ t.kid \in JWKSKeys
    /\ t.sig /\ ~t.expired /\ t.iss /\ t.aud

\* C10: a request whose bearer token is expired or otherwise invalid, or
\* whose key set cannot be fetched, never reaches the handler and is answered
\* 401; no client operation is invoked and no page is opened for it.
C10_InvalidTokenRejected ==
    /\ hpc = "handler" => ValidToken(req.token) /\ jwksCache = "keys"
    /\ (req # NoRequest /\ hpc = "idle" /\ ~ValidToken(req.token)) =>
           (resp = 401 /\ calls = 0 /\ opened = 0)
    /\ (req # NoRequest /\ hpc = "idle" /\ jwksCache = "empty") =>
           (resp = 401 /\ calls = 0 /\ opened = 0)

\* C10 witness: a tools/call request for execute with an expired token, all
\* else in order and the key set at hand, has been answered 401
C10_Witness ==
    /\ req # NoRequest /\ hpc = "idle" /\ resp = 401 /\ jwksCache = "keys"
    /\ req.method = "tools/call" /\ req.tool = "mdcalc_execute"
    /\ req.token = Token("jwt", "k1", TRUE, TRUE, TRUE, TRUE,
                          <<"mdcalc:read", "mdcalc:calculate">>)
    /\ calls = 0 /\ opened = 0

\* the scope the interface contract asks for each tool
ScopeNeeded(tool) ==
    IF tool = "mdcalc_execute" THEN "mdcalc:calculate" ELSE "mdcalc:read"

\* the scope claim of the request's token contains the word w
Holds(w) == \E i \in 1..Len(req.token.scope) : req.token.scope[i] = w

\* C11: a tools/call for one of the four tools invokes a client operation
\* only if the token holds the scope needed for that tool; without it the
\* answer is 403 and no client operation runs and no page is opened.
C11_ScopeRequiredPerTool ==
    (hpc = "idle" /\ req.method = "tools/call" /\ req.tool # "unknown"
        /\ resp \notin {0, 401}) =>
        /\ calls = 1 => Holds(ScopeNeeded(req.tool))
        /\ ~Holds(ScopeNeeded(req.tool)) => (resp = 403 /\ calls = 0 /\ opened = 0)

\* C11 witness: a valid token holding only the read scope asked for
\* mdcalc_execute and was answered 403
C11_Witness ==
    /\ hpc = "idle" /\ req.method = "tools/call" /\ req.tool = "mdcalc_execute"
    /\ req.token = Token("jwt", "k1", TRUE, FALSE, TRUE, TRUE, <<"mdcalc:read">>)
    /\ resp = 403 /\ calls = 0

----------------------------------------------------------------------------
(* Properties of the line-delimited server over the session (SpecSess) *)

SessionFields == <<browser, context, playwright, alive, drivers>>

\* C12: a navigation failure ends only the operation it happened in: the
\* client's driver, browser and context are left as they were, the page is
\* closed, the response written carries the id of the request and reports
\* the error; an operation that finds the session live keeps using it.
C12_NavigationFailureIsolated ==
    [][ /\ (spc = "body" /\ sres' = "nav_failure") => UNCHANGED SessionFields
        /\ (spc = "finally" /\ sres = "nav_failure") =>
              /\ UNCHANGED SessionFields
              /\ spc' = "idle" /\ pg \notin pages' /\ pages' = {}
              /\ reply'.id = line.id /\ reply'.kind = "tool_error"
        /\ (spc = "ensure" /\ Status = "live") =>
              (UNCHANGED SessionFields /\ spc' = "newpage")
      ]_vars

\* C12 witness: execute_calculator failed to navigate on a live session and
\* its error response has been written
C12_Witness ==
    /\ spc = "idle" /\ sop = "execute" /\ sres = "nav_failure"
    /\ line.tool = "execute" /\ reply.id = line.id /\ reply.kind = "tool_error"
    /\ context \in alive /\ browser = context /\ pages = {}

\* C13: a line that is not valid JSON is answered with a structured error
\* response.
C13_MalformedLineAnswered ==
    ~line.valid => reply.kind = "rpc_error"

\* C14: a recovery whose re-launch fails ends that operation with no page
\* opened; an operation after it never asks a missing or dead context for a
\* page: it re-launches first, and ends with the launch error or with a page.
C14_RelaunchFailureRecoverable ==
    /\ sres = "launch_error" => (spc = "idle" /\ opened = 0 /\ pages = {})
    /\ (relaunchFailed /\ spc = "newpage") => context \in alive
    /\ relaunchFailed => sres # "dead_context_error"

----------------------------------------------------------------------------
(* Properties of the computations (SpecFn) *)

Clamp50(z) == IF z < 50 THEN 50 ELSE IF z > 100 THEN 100 ELSE z

ZoomRan == fin.fn = "zoom" /\ fout.ran

\* C15 as stated: for H > V the zoom applied is the integer part of
\* (V/H) x 90 clamped to [50,100]; for H <= V none is applied (100%).
C15_ZoomIsIntegerPart ==
    ZoomRan =>
        LET H == target_height(fin)
            V == fin.viewportHeight
        IN IF H > V
           THEN fout.applied /\ fout.zoom = Clamp50((90 * V) \div H)
           ELSE ~fout.applied /\ fout.zoom = 100

\* C15 as the code has it: for H > V the zoom applied lies in [50,100] and
\* is the clamped integer part of (V/H) x 90, or one less than that where
\* (V/H) x 90 is a whole number; for H <= V none is applied (100%).
C15_ZoomNearIntegerPart ==
    ZoomRan =>
        LET H == target_height(fin)
            V == fin.viewportHeight
            exact == Clamp50((90 * V) \div H)
        IN IF H > V
           THEN /\ fout.applied /\ fout.zoom \in 50..100
                /\ fout.zoom \in {exact - 1, exact}
                /\ (90 * V) % H # 0 => fout.zoom = exact
           ELSE ~fout.applied /\ fout.zoom = 100

\* C15 witness: viewport 7, target height 10: (7/10) x 90 is 63 and the zoom
\* applied is 62
C15_Witness ==
    /\ ZoomRan /\ fin.viewportHeight = 7 /\ target_height(fin) = 10
    /\ fout.applied /\ fout.zoom = 62

\* C16: every candidate search_calculators returns has a non-empty id and a
\* non-empty title; the candidates are in the order of the rows; there are
\* at most `limit` of them; none when the page reports no tool or has no row.
C16_SearchCandidatesWellFormed ==
    (fin.fn = "search" /\ fout.ran) =>
        LET cs == fout.calculators
        IN /\ \A k \in 1..Len(cs) : cs[k].id # "" /\ cs[k].title # ""
           /\ \A j, k \in 1..Len(cs) : j < k => cs[j].row < cs[k].row
           /\ Len(cs) <= fin.limit
           /\ (fin.noTool \/ Len(fin.rows) = 0) => cs = << >>

IsPrefix(a, b) == Len(a) <= Len(b) /\ \A i \in 1..Len(a) : a[i] = b[i]

\* C17: get_all_calculators returns one entry per catalog entry, in order,
\* with the keys id, name and category only; a name of at most 100
\* characters is unchanged, a longer one is its first 97 characters followed
\* by '...', so no name is longer than 100; a missing category is 'General'.
\* In the list-all response total_count is the number of entries and every
\* entry is in exactly one category group.
C17_CatalogEntries ==
    (fin.fn = "catalog" /\ fout.ran) =>
        LET src == fin.calculators
            cs == fout.calculators
            groups == fout.response.calculators_by_category
        IN /\ Len(cs) = Len(src)
           /\ \A k \in 1..Len(cs) :
                 /\ DOMAIN cs[k] = {"id", "name", "category"}
                 /\ cs[k].id = src[k].id
                 /\ Len(src[k].name) <= 100 => cs[k].name = src[k].name
                 /\ Len(src[k].name) > 100 =>
                       /\ Len(cs[k].name) = 100
                       /\ IsPrefix(SubSeq(cs[k].name, 1, 97), src[k].name)
                       /\ SubSeq(cs[k].name, 98, 100) = <<".", ".", ".">>
                 /\ Len(cs[k].name) <= 100
                 /\ cs[k].category = IF src[k].hasCategory THEN src[k].category
                                                            ELSE "General"
           /\ fout.response.total_count = Len(cs)
           /\ fout.response.all_calculators = cs
           /\ \A k \in 1..Len(cs) :
                 LET slots == UNION { {c} \X (1..Len(groups[c])) : c \in DOMAIN groups }
                 IN Cardinality({ s \in slots : groups[s[1]][s[2]] = k }) = 1

\* C17 witness: a catalog of two entries, the second with a name of 101
\* characters and no category, has been listed
C17_Witness ==
    /\ fin.fn = "catalog" /\ fout.ran /\ Len(fin.calculators) = 2
    /\ Len(fin.calculators[2].name) = 101 /\ ~fin.calculators[2].hasCategory
    /\ Len(fout.calculators[2].name) = 100
    /\ fout.calculators[2].category = "General"
    /\ fout.response.total_count = 2

\* C18: the numeric path never overwrites an input that already holds a
\* non-empty value different from the value being assigned, whichever route
\* chose the input
C18_NoOverwriteOfDifferingValue ==
    \A k \in 1..Len(effects) :
        effects[k].kind = "fill" =>
            ~(effects[k].was # "" /\ effects[k].was # inputs[effects[k].a].value)

\* what each path finds for the current assignment on the page as it is
InputPathFinds ==
    \/ FindInputNearLabel(inputs[idx].field, inputs[idx].value).filled
    \/ GenericSelectors(inputs[idx].field).filled

DiscretePathFinds ==
    \/ DirectButtonText(inputs[idx].value).clicked
    \/ ExactTextDiv(inputs[idx].value).clicked
    \/ ContextAwareSearch(inputs[idx].field, inputs[idx].value).clicked
    \/ JavaScriptClick(inputs[idx].field, inputs[idx].value).clicked

\* C19: the classification of the value only orders the paths: when the
\* strategies of an assignment end with nothing filled and nothing clicked,
\* both paths have been tried, so neither the input-filling path nor the
\* discrete path finds a control for it on the page
C19_ClassificationOnlyOrdersPaths ==
    (op = "execute" /\ pc = "wait" /\ ~filled /\ ~clicked) =>
        ~InputPathFinds /\ ~DiscretePathFinds

\* the numeric half of C19, which the code keeps
C19_NumericHalf ==
    (op = "execute" /\ pc = "wait" /\ ~filled /\ ~clicked
        /\ isNumericValue(inputs[idx].value)) =>
        ~InputPathFinds /\ ~DiscretePathFinds

\* the restore step of the snapshot capture was reached
RestoreRan == capfail \in {"none", "restore"}

\* C20: in get_calculator_details, once the page has been zoomed or its
\* overlays hidden, the restore step runs on every path afterwards: the
\* operation never ends with the page still altered and the restore step
\* not reached
C20_RestoreAlwaysRuns ==
    (op = "details" /\ pc = "done" /\ zoomed) => RestoreRan

\* C22: after any sequence of initialize, ensure_browser_connected and
\* cleanup calls on one client, failures part-way included, at most one
\* launched browser and one automation driver are alive: every browser that
\* is not closed is the one the client holds, and so is every driver
C22_OneBrowserOneDriver ==
    spc \in {"idle", "newpage"} =>
        /\ alive \subseteq {browser}
        /\ drivers \subseteq {playwright}

\* operation t still has the page it works on, unless that page went with a
\* browser that crashed by itself
PageKept(t) == tpc[t] = "body" => (tpg[t] \in pages \/ tpg[t].ctx \in crashed)

\* no recovery is in progress
Quiet == \A t \in Tasks : tpc[t] \in {"idle", "body"}

\* C21: when two operations run at the same time on one client, no step of
\* one of them closes or replaces the browser behind the page the other is
\* still using, and when no recovery is in progress at most one launched
\* browser is alive
C21_ConcurrentOperationsIsolated ==
    /\ \A t \in Tasks : PageKept(t)
    /\ Quiet => Cardinality(alive) <= 1

\* the elements on the page that carry the value text of assignment a
TextMatches(a) ==
    { o \in 1..Len(dom.opts) :
        dom.opts[o].exists /\ dom.opts[o].text = inputs[a].value }

\* those of them that lie in the field of assignment a
InFieldMatches(a) ==
    { o \in TextMatches(a) : inputs[a].field \in dom.opts[o].ctx }

\* C23: when the value text of a discrete assignment matches more than one
\* element of the page, the element clicked for it has an ancestor within 5
\* levels naming the field and is the first such element in document order;
\* an element of another field is never clicked
C23_AmbiguousTextClickedInField ==
    \A k \in 1..Len(effects) :
        (effects[k].kind = "click" /\ Cardinality(TextMatches(effects[k].a)) > 1) =>
            /\ effects[k].target \in InFieldMatches(effects[k].a)
            /\ \A o \in InFieldMatches(effects[k].a) : effects[k].target <= o

\* the inputs an existing label of the field is explicitly linked to
LinkedInputs(fieldName) ==
    { dom.labs[l].for : l \in { x \in matchingLabels(fieldName) :
        /\ dom.labs[x].tag = "LABEL" /\ dom.labs[x].for # 0
        /\ Present(dom.ins[dom.labs[x].for])
        /\ dom.ins[dom.labs[x].for].tag = "INPUT" } }

\* some label of the field yields an input by linkage or as its sibling
SomeLabelYields(fieldName, value) ==
    \E l \in matchingLabels(fieldName) :
        ForRoute(l) # NoFill \/ SiblingRoute(l, value) # NoFill

\* C24: the numeric path prefers the routes in the order linkage, sibling,
\* proximity: whenever some label of the field is linked to an existing
\* input, that input is the one filled; the geometric route is used only
\* when no label of the field yields an input by linkage or as sibling, and
\* it fills only an empty input closer to the label than the threshold
C24_RoutePriority ==
    (op = "execute" /\ pc = "num1") =>
        LET f == inputs[idx].field
            r == FindInputNearLabel(f, inputs[idx].value)
        IN /\ LinkedInputs(f) # {} => (r.filled /\ r.target \in LinkedInputs(f))
           /\ r.route = "near" =>
                 /\ ~SomeLabelYields(f, inputs[idx].value)
                 /\ val[r.target] = ""
                 /\ \E l \in matchingLabels(f) :
                       Distance(l, r.target) < ProximityThreshold

\* C25: result extraction applies its score heuristics in strict priority
\* order: the score of a result container is the one returned; the
\* prominent-font scan counts only without it; the full-text patterns
\* ('<n> points', then 'Score: <n>', then a value with a lab unit) count only
\* when both gave none; the interpretation is found whichever layer gave
\* the score
C25_ExtractionPriority ==
    (op = "execute" /\ pc = "done") =>
        LET r == dom.res
            score == outcome.results.score
        IN /\ r.heading # "" => score = r.heading \o " points"
           /\ (r.heading = "" /\ r.prominent # "") => score = r.prominent \o " points"
           /\ (r.heading = "" /\ r.prominent = "") =>
                 /\ r.points # "" => score = r.points \o " points"
                 /\ (r.points = "" /\ r.label # "") => score = r.label \o " points"
                 /\ (r.points = "" /\ r.label = "" /\ r.unit # "") =>
                       score = r.unit \o " mg/dL"
                 /\ (r.points = "" /\ r.label = "" /\ r.unit = "") => score = ""
           /\ outcome.results.interpretation = r.interp

\* C25 witness: a page with a prominent number and every full-text pattern
\* but no result container gave the prominent number, with the interpretation
C25_Witness ==
    /\ op = "execute" /\ pc = "done"
    /\ dom.res.heading = "" /\ dom.res.prominent = "4" /\ dom.res.points = "5"
    /\ dom.res.label = "6" /\ dom.res.unit = "120" /\ dom.res.interp # ""
    /\ outcome.results.score = "4 points"
    /\ outcome.results.interpretation = dom.res.interp

\* C30: in every outcome of result extraction risk is non-null only if score
\* is non-null, so success is true exactly when a score was found and no
\* outcome has a risk value without a score
C30_RiskOnlyWithScore ==
    (op = "execute" /\ pc = "done") =>
        /\ outcome.results.risk # "" => outcome.results.score # ""
        /\ outcome.results.success <=> outcome.results.score # ""

\* C30 witness: the page has a risk percentage in a result container without
\* a score heading, and a prominent number: the outcome has the score and no
\* risk
C30_Witness ==
    /\ op = "execute" /\ pc = "done"
    /\ dom.res.heading = "" /\ dom.res.crisk # "" /\ dom.res.prominent = "4"
    /\ outcome.results.score = "4 points" /\ outcome.results.risk = ""
    /\ outcome.results.success

\* C26: the result capture of execute_calculator computes its zoom by the
\* rule of the snapshot capture applied to the combined content height: for
\* equal content height and viewport height both apply the same zoom, and
\* the zoom of the result capture is never below the snapshot's lower bound
C26_ResultZoomIsSnapshotZoom ==
    (fin.fn = "rzoom" /\ fout.ran /\ fout.applied) =>
        /\ fout.zoom = SnapshotZoom(fin.viewportHeight, fin.contentHeight)
        /\ fout.zoom >= 50

\* C27: hiding the overlays and restoring is a round trip: after the restore
\* step the inline display of every element is the one it had before the
\* hiding, also for an element matched by both hiding passes, and no element
\* keeps the saved-display marker
C27_HideRestoreRoundTrip ==
    (fin.fn = "overlay" /\ fout.ran) =>
        \A k \in 1..Len(fin.elements) :
            /\ fout.elements[k].display = fin.elements[k].display
            /\ ~fout.elements[k].marker.has

\* the round trip for the elements matched by at most one hiding pass
C27_SinglePass ==
    (fin.fn = "overlay" /\ fout.ran) =>
        \A k \in 1..Len(fin.elements) :
            ~(fin.elements[k].resultClass /\ fin.elements[k].sticky) =>
                /\ fout.elements[k].display = fin.elements[k].display
                /\ ~fout.elements[k].marker.has

\* a request has been handled by handle_request
Handled == line # NoLine

\* C28: for every request passed to handle_request exactly one response is
\* returned, with the id of the request and exactly one of result and
\* error, and no exception escapes: an unknown method gives error -32601, a
\* failure while initializing the client gives error -32603, a failure
\* inside a tool gives a result whose content reports success false
C28_OneResponsePerRequest ==
    Handled =>
        /\ reply.kind \in {"result", "error"}
        /\ reply.id = line.id
        /\ line.method = "other" => (reply.kind = "error" /\ reply.code = -32601)
        /\ hist.initFailed => (reply.kind = "error" /\ reply.code = -32603)
        /\ hist.toolFailed => (reply.kind = "result" /\ reply.success = "false")

\* C28 for the requests that are JSON objects
C28_ObjectRequests ==
    (Handled /\ line.object) =>
        /\ reply.kind \in {"result", "error"}
        /\ reply.id = line.id
        /\ line.method = "other" => (reply.kind = "error" /\ reply.code = -32601)
        /\ hist.initFailed => (reply.kind = "error" /\ reply.code = -32603)
        /\ hist.toolFailed => (reply.kind = "result" /\ reply.success = "false")

\* C29: a tool is executed only when the initialization of the client has
\* completed: the first tools/call triggers it, initialize and tools/list
\* requests never launch the browser, a tools/call whose initialization
\* fails is answered with an error without running the tool, and while the
\* server is initialized no tools/call initializes the client again
C29_ToolOnlyAfterInitialization ==
    Handled =>
        /\ hist.toolRan =>
              /\ ~hist.initFailed
              /\ hist.wasInitialized \/ hist.inits = 1
        /\ (line.method = "tools/call" /\ ~hist.wasInitialized) => hist.inits = 1
        /\ line.method \in {"initialize", "tools/list"} =>
              (hist.inits = 0 /\ hist.launches = 0)
        /\ hist.initFailed => (reply.kind = "error" /\ ~hist.toolRan)
        /\ hist.wasInitialized => hist.inits = 0

\* C29 witness: a tools/call on the initialized server ran its tool without
\* initializing the client again
C29_Witness ==
    /\ Handled /\ line.method = "tools/call" /\ hist.wasInitialized
    /\ hist.toolRan /\ hist.inits = 0 /\ initialized

====
